---- MODULE Spec2Model ----
(***************************************************************************)
(* gokube: a miniature container orchestrator.                             *)
(*                                                                         *)
(* The model covers the key-value store behind the registries, the three   *)
(* registries (Pod, Node, ReplicaSet), the HTTP handlers of the API        *)
(* server, the ReplicaSet controller, the scheduler and the node agent     *)
(* (kubelet).                                                              *)
(*                                                                         *)
(* Strings that the code inspects character by character (object names,    *)
(* storage keys) are sequences of ASCII codes; strings the code only       *)
(* compares for equality or emptiness (statuses, container names, images)  *)
(* are TLA+ strings.                                                       *)
(***************************************************************************)
EXTENDS Integers, Sequences, FiniteSets, TLC

VARIABLES
    etcd,     \* the key-value store: storage key -> JSON value
    hist,     \* SeqSpec, ApiSpec: the calls made so far, each with the store it found
    race,     \* RaceSpec: two registry Create calls in flight on one registry
    ctrl,     \* the controller process: "running", or "dead" after log.Fatalf
    sched,    \* the scheduler: idle, or in the loop of a tick with the lists it read
    kubelet,  \* the node agent: its state, its node name and its pod table
    clients   \* the number of requests clients have sent

vars == <<etcd, hist, race, ctrl, sched, kubelet, clients>>
components == <<ctrl, sched, kubelet, clients>>

(***************************************************************************)
(* Bounds of the model.                                                    *)
(***************************************************************************)
MaxReplicas == 2    \* largest spec.replicas of a ReplicaSet
NumSeeds == 2       \* number of distinct states of the random source
MaxInitPods == 1    \* pods in the store when a call sequence starts
MaxOps == 3         \* length of a call sequence
MaxRequests == 2    \* client requests in a run of the whole system

(***************************************************************************)
(* Let(v, F) is F(v), with v evaluated once however often F uses it: the   *)
(* value a loop carries from one turn to the next.                         *)
(***************************************************************************)
Let(v, F(_)) == CHOOSE y \in {F(x) : x \in {v}} : TRUE

(***************************************************************************)
(* Strings as sequences of ASCII codes.                                    *)
(***************************************************************************)
HasPrefix(s, prefix) ==
    /\ Len(s) >= Len(prefix)
    /\ SubSeq(s, 1, Len(prefix)) = prefix

RECURSIVE LexLess(_, _)
LexLess(a, b) ==
    IF a = <<>> THEN b # <<>>
    ELSE IF b = <<>> THEN FALSE
    ELSE IF Head(a) # Head(b) THEN Head(a) < Head(b)
    ELSE LexLess(Tail(a), Tail(b))

\* keys in the order in which a range read of the store returns them
RECURSIVE SortKeys(_)
SortKeys(S) ==
    IF S = {} THEN <<>>
    ELSE Let(CHOOSE x \in S : \A y \in S \ {x} : LexLess(x, y),
             LAMBDA k : Let(S \ {k}, LAMBDA rest : <<k>> \o SortKeys(rest)))

(***************************************************************************)
(* names.SimpleNameGenerator                                               *)
(***************************************************************************)
maxNameLength == 63
randomLength == 5
MaxGeneratedNameLength == maxNameLength - randomLength

\* "bcdfghjklmnpqrstvwxz2456789"
alphanums ==
    <<98, 99, 100, 102, 103, 104, 106, 107, 108, 109, 110, 112, 113, 114,
      115, 116, 118, 119, 120, 122, 50, 52, 53, 54, 55, 56, 57>>
alphanumsIdxBits == 5
alphanumsIdxMask == (2 ^ alphanumsIdxBits) - 1
maxAlphanumsPerInt == 63 \div alphanumsIdxBits

\* the states of the random source; a call of String moves it to the next
Seeds == 1 .. NumSeeds
NextSeed(seed) == (seed % NumSeeds) + 1

\* The k-th value rng.rand.Int63() returns when the source is in state seed,
\* as its maxAlphanumsPerInt groups of alphanumsIdxBits bits, lowest first.
Int63(seed, k) ==
    [j \in 1 .. maxAlphanumsPerInt |->
        (7 * seed + 11 * (maxAlphanumsPerInt * (k - 1) + j)) % (alphanumsIdxMask + 1)]

RECURSIVE StringLoop(_, _, _, _, _, _)
StringLoop(b, randomInt63, remaining, k, seed, n) ==
    IF Len(b) >= n THEN b
    ELSE IF remaining = 0
         THEN Let(Int63(seed, k + 1),
                  LAMBDA next : StringLoop(b, next, maxAlphanumsPerInt, k + 1, seed, n))
         ELSE Let(Head(randomInt63),
                  LAMBDA idx :
                    Let(<<IF idx < Len(alphanums) THEN Append(b, alphanums[idx + 1]) ELSE b,
                          Tail(randomInt63), remaining - 1>>,
                        LAMBDA t : StringLoop(t[1], t[2], t[3], k, seed, n)))

String(n, seed) ==
    Let(Int63(seed, 1),
        LAMBDA first : StringLoop(<<>>, first, maxAlphanumsPerInt, 1, seed, n))

\* a variant that keeps the whole base
GenerateName_BaseKept(base, seed) == base \o String(randomLength, seed)

GenerateName(base, seed) ==
    (IF Len(base) > MaxGeneratedNameLength
     THEN SubSeq(base, 1, MaxGeneratedNameLength)
     ELSE base) \o String(randomLength, seed)

generatePodNameFromReplicaSet(replicaSetName, seed) == GenerateName(replicaSetName, seed)

(***************************************************************************)
(* api types                                                               *)
(***************************************************************************)
PodPending == "Pending"
PodRunning == "Running"
PodSucceeded == "Succeeded"
PodFailed == "Failed"
PodScheduled == "Scheduled"
NodeReady == "Ready"
NodeNotReady == "NotReady"

\* api.Container
Container(name, image) == [name |-> name, image |-> image]

\* api.PodSpec; a Go slice is nil or a (possibly empty) list
PodSpec(containers, isNil, replicas) ==
    [containers |-> containers, nilContainers |-> isNil, replicas |-> replicas]

\* api.Pod
Pod(name, spec, nodeName, status) ==
    [name |-> name, spec |-> spec, nodeName |-> nodeName, status |-> status]

\* api.Node
Node(name, unschedulable, status) ==
    [name |-> name, unschedulable |-> unschedulable, status |-> status]

\* api.ReplicaSet
ReplicaSet(name, replicas, template, statusReplicas) ==
    [name |-> name, replicas |-> replicas, template |-> template,
     statusReplicas |-> statusReplicas]

ValidateContainer(c) == c.name # "" /\ c.image # ""

\* Pod.Validate: name required; containers required (non-nil), each element
\* required with its name and image; replicas gte=0
ValidatePod(p) ==
    /\ p.name # <<>>
    /\ ~p.spec.nilContainers
    /\ \A i \in 1 .. Len(p.spec.containers) : ValidateContainer(p.spec.containers[i])
    /\ p.spec.replicas >= 0

\* Node.Validate: name required
ValidateNode(n) == n.name # <<>>

\* a variant that also drops pods that ran to completion
IsActive_SucceededInactive(p) == p.status # PodFailed /\ p.status # PodSucceeded

IsActive(p) == p.status # PodFailed

IsOwnedBy(p, metaName) == HasPrefix(p.name, metaName)

IsPodActiveAndOwnedBy(p, metaName) == IsOwnedBy(p, metaName) /\ IsActive(p)

(***************************************************************************)
(* runtime.Encode / runtime.Decode: encoding/json on the api types.        *)
(* A JSON object is a record; a member tagged omitempty is left out when   *)
(* it is empty and reads back as the zero value.                           *)
(***************************************************************************)
EncodePodSpec(s) ==
    [containers |-> [null |-> s.nilContainers, items |-> s.containers],
     replicas |-> s.replicas]

DecodePodSpec(j) ==
    PodSpec(IF j.containers.null THEN <<>> ELSE j.containers.items,
            j.containers.null, j.replicas)

\* a variant that never writes the nodeName member
EncodePod_NodeNameDropped(p) ==
    [metadata |-> [name |-> p.name], spec |-> EncodePodSpec(p.spec), status |-> p.status]

EncodePod(p) ==
    LET always == [metadata |-> [name |-> p.name],
                   spec |-> EncodePodSpec(p.spec),
                   status |-> p.status]
    IN IF p.nodeName = <<>> THEN always ELSE ("nodeName" :> p.nodeName) @@ always

DecodePod(j) ==
    Pod(j.metadata.name, DecodePodSpec(j.spec),
        IF "nodeName" \in DOMAIN j THEN j.nodeName ELSE <<>>,
        j.status)

EncodeNode(n) ==
    LET always == [metadata |-> [name |-> n.name]]
        spec == IF n.unschedulable THEN [unschedulable |-> TRUE] ELSE [x \in {} |-> TRUE]
        withSpec == ("spec" :> spec) @@ always
    IN IF n.status = "" THEN withSpec ELSE ("status" :> n.status) @@ withSpec

DecodeNode(j) ==
    Node(j.metadata.name,
         "unschedulable" \in DOMAIN j.spec,
         IF "status" \in DOMAIN j THEN j.status ELSE "")

EncodeReplicaSet(rs) ==
    [metadata |-> [name |-> rs.name],
     spec |-> [replicas |-> rs.replicas,
               template |-> [spec |-> EncodePodSpec(rs.template)]],
     status |-> [replicas |-> rs.statusReplicas]]

DecodeReplicaSet(j) ==
    ReplicaSet(j.metadata.name, j.spec.replicas,
               DecodePodSpec(j.spec.template.spec), j.status.replicas)

(***************************************************************************)
(* storage.EtcdStorage: every operation is one request to the store.       *)
(***************************************************************************)
Put(e, key, value) ==
    [k \in DOMAIN e \cup {key} |-> IF k = key THEN value ELSE e[k]]

\* Create and Update are both an unconditional put
StorageCreate(e, key, json) == Put(e, key, json)
StorageUpdate(e, key, json) == Put(e, key, json)
StorageDelete(e, key) == [k \in DOMAIN e \ {key} |-> e[k]]
\* Get fails with ErrNotFound when the range read returns no key
StorageFound(e, key) == key \in DOMAIN e
\* List: the values under the prefix, in key order
StorageList(e, prefix) ==
    Let(SortKeys({k \in DOMAIN e : HasPrefix(k, prefix)}),
        LAMBDA keys : [i \in 1 .. Len(keys) |-> e[keys[i]]])

(***************************************************************************)
(* The etcd client can fail a request (ErrEtcdClient); a failed request    *)
(* leaves the store as it was.  The storage calls of an operation are      *)
(* numbered in the order in which it makes them, and f[i] says whether the *)
(* client fails the i-th; calls beyond the length of f succeed.            *)
(***************************************************************************)
ErrStorageNotFound == "storage: object not found"
ErrEtcdClient == "storage: etcd client error"

NoFaults == <<>>
Fails(f, i) == i <= Len(f) /\ f[i]
\* the faults left for the calls after the first n
RestFaults(f, n) == IF Len(f) <= n THEN <<>> ELSE SubSeq(f, n + 1, Len(f))

\* the error of storage.Get
StorageGet(e, key, fails) ==
    IF fails THEN ErrEtcdClient
    ELSE IF StorageFound(e, key) THEN ""
    ELSE ErrStorageNotFound

\* the outcome of a storage call that writes (Create, Update, Delete), given
\* the store it leaves when the client answers
StorageWrite(e, written, fails) ==
    IF fails THEN [etcd |-> e, err |-> ErrEtcdClient]
    ELSE [etcd |-> written, err |-> ""]

(***************************************************************************)
(* Storage keys of the registries.                                         *)
(***************************************************************************)
\* "/pods/"
podPrefix == <<47, 112, 111, 100, 115, 47>>
\* "/registry/nodes/"
nodePrefix == <<47, 114, 101, 103, 105, 115, 116, 114, 121, 47, 110, 111, 100, 101, 115, 47>>
\* "/replicasets"
replicaSetPrefix == <<47, 114, 101, 112, 108, 105, 99, 97, 115, 101, 116, 115>>

\* the path elements between the slashes (47) of a path
RECURSIVE SplitPath(_, _)
SplitPath(s, cur) ==
    IF s = <<>> THEN <<cur>>
    ELSE IF Head(s) = 47 THEN <<cur>> \o SplitPath(Tail(s), <<>>)
    ELSE SplitPath(Tail(s), Append(cur, Head(s)))

\* path.Clean on the elements: drop empty and "." elements, let ".." (46 46)
\* remove the element before it, drop ".." at the root
RECURSIVE CleanElems(_, _, _)
CleanElems(elems, out, rooted) ==
    IF elems = <<>> THEN out
    ELSE LET el == Head(elems)
             rest == Tail(elems)
         IN IF el = <<>> \/ el = <<46>> THEN CleanElems(rest, out, rooted)
            ELSE IF el = <<46, 46>>
                 THEN IF out # <<>> /\ out[Len(out)] # <<46, 46>>
                      THEN CleanElems(rest, SubSeq(out, 1, Len(out) - 1), rooted)
                      ELSE IF rooted THEN CleanElems(rest, out, rooted)
                           ELSE CleanElems(rest, Append(out, el), rooted)
                 ELSE CleanElems(rest, Append(out, el), rooted)

RECURSIVE JoinElems(_)
JoinElems(elems) ==
    IF elems = <<>> THEN <<>>
    ELSE IF Len(elems) = 1 THEN Head(elems)
    ELSE Head(elems) \o <<47>> \o JoinElems(Tail(elems))

PathClean(p) ==
    IF p = <<>> THEN <<46>>
    ELSE LET rooted == Head(p) = 47
             body == JoinElems(CleanElems(SplitPath(p, <<>>), <<>>, rooted))
         IN IF rooted THEN <<47>> \o body
            ELSE IF body = <<>> THEN <<46>> ELSE body

\* path.Join(prefix, name): the non-empty elements joined by a slash, cleaned
PathJoin(a, b) ==
    IF a = <<>> /\ b = <<>> THEN <<>>
    ELSE IF a = <<>> THEN PathClean(b)
    ELSE IF b = <<>> THEN PathClean(a)
    ELSE PathClean(a \o <<47>> \o b)

\* PodRegistry.generateKey: Sprintf("%s%s", podPrefix, podName)
PodKey(podName) == podPrefix \o podName
\* generateKey of the node registry: path.Join(prefix, name)
NodeKey(name) == PathJoin(nodePrefix, name)
\* ReplicaSetRegistry.generateKey: Sprintf("%s/%s", replicaSetPrefix, name)
ReplicaSetKey(name) == replicaSetPrefix \o <<47>> \o name

(***************************************************************************)
(* Errors of the registries, by kind; "" is nil.                           *)
(***************************************************************************)
ErrAlreadyExists == "AlreadyExists"
ErrNotFound == "NotFound"
ErrInvalid == "Invalid"
ErrNoNodes == "NoNodes"
ErrInternal == "Internal"

NoNode == Node(<<>>, FALSE, "")

NoPod == Pod(<<>>, PodSpec(<<>>, TRUE, 0), <<>>, "")
NoReplicaSet == ReplicaSet(<<>>, 0, PodSpec(<<>>, TRUE, 0), 0)

(***************************************************************************)
(* PodRegistry                                                             *)
(***************************************************************************)
\* the pod as CreatePod leaves it through the pointer: empty status defaulted
DefaultedPod(pod) == IF pod.status = "" THEN [pod EXCEPT !.status = PodPending] ELSE pod

\* a variant that validates before it looks the name up
CreatePodCheck_ValidateFirst(e, pod, f) ==
    IF ~ValidatePod(DefaultedPod(pod)) THEN ErrInvalid
    ELSE IF StorageGet(e, PodKey(pod.name), Fails(f, 1)) = "" THEN ErrAlreadyExists
    ELSE ""

\* CreatePod up to the write: the existence check (any error of the read
\* counts as "does not exist") and the validation
\* a variant without the test for an existing pod
CreatePodCheck_ExistenceUntested(e, pod, f) ==
    IF ~ValidatePod(DefaultedPod(pod)) THEN ErrInvalid ELSE ""

CreatePodCheck(e, pod, f) ==
    IF StorageGet(e, PodKey(pod.name), Fails(f, 1)) = "" THEN ErrAlreadyExists
    ELSE IF ~ValidatePod(DefaultedPod(pod)) THEN ErrInvalid
    ELSE ""

CreatePod(e, pod, f) ==
    LET err == CreatePodCheck(e, pod, f)
    IN IF err # "" THEN [etcd |-> e, err |-> err]
       ELSE StorageWrite(e, StorageCreate(e, PodKey(pod.name),
                                          EncodePod(DefaultedPod(pod))),
                         Fails(f, 2))

GetPod(e, name, f) ==
    LET err == StorageGet(e, PodKey(name), Fails(f, 1))
    IN IF err = "" THEN [err |-> "", pod |-> DecodePod(e[PodKey(name)])]
       ELSE IF err = ErrStorageNotFound THEN [err |-> ErrNotFound, pod |-> NoPod]
       ELSE [err |-> ErrInternal, pod |-> NoPod]

UpdatePod(e, pod, f) ==
    IF ~ValidatePod(pod) THEN [etcd |-> e, err |-> ErrInvalid]
    ELSE StorageWrite(e, StorageUpdate(e, PodKey(pod.name), EncodePod(pod)),
                      Fails(f, 1))

DeletePod(e, name, f) == StorageWrite(e, StorageDelete(e, PodKey(name)), Fails(f, 1))

ListPods(e) ==
    Let(StorageList(e, podPrefix),
        LAMBDA values : [i \in 1 .. Len(values) |-> DecodePod(values[i])])

listPodsByStatus(e, status) ==
    LET hasStatus(p) == p.status = status
    IN SelectSeq(ListPods(e), hasStatus)

ListPendingPods(e) == listPodsByStatus(e, PodPending)
ListUnassignedPods(e) == listPodsByStatus(e, PodPending)

(***************************************************************************)
(* NodeRegistry                                                            *)
(***************************************************************************)
CreateNodeCheck(e, node, f) ==
    IF StorageGet(e, NodeKey(node.name), Fails(f, 1)) = "" THEN ErrAlreadyExists
    ELSE IF ~ValidateNode(node) THEN ErrInvalid
    ELSE ""

CreateNode(e, node, f) ==
    LET err == CreateNodeCheck(e, node, f)
    IN IF err # "" THEN [etcd |-> e, err |-> err]
       ELSE StorageWrite(e, StorageCreate(e, NodeKey(node.name), EncodeNode(node)),
                         Fails(f, 2))

GetNode(e, name, f) ==
    LET err == StorageGet(e, NodeKey(name), Fails(f, 1))
    IN IF err = "" THEN [err |-> "", node |-> DecodeNode(e[NodeKey(name)])]
       ELSE IF err = ErrStorageNotFound THEN [err |-> ErrNotFound, node |-> NoNode]
       ELSE [err |-> ErrInternal, node |-> NoNode]

UpdateNode(e, node, f) ==
    IF ~ValidateNode(node) THEN [etcd |-> e, err |-> ErrInvalid]
    ELSE StorageWrite(e, StorageUpdate(e, NodeKey(node.name), EncodeNode(node)),
                      Fails(f, 1))

DeleteNode(e, name, f) == StorageWrite(e, StorageDelete(e, NodeKey(name)), Fails(f, 1))

ListNodes(e) ==
    Let(StorageList(e, nodePrefix),
        LAMBDA values : [i \in 1 .. Len(values) |-> DecodeNode(values[i])])

(***************************************************************************)
(* ReplicaSetRegistry                                                      *)
(***************************************************************************)
\* Create up to the write: the existence check (there is no validation)
ReplicaSetCreateCheck(e, rs, f) ==
    IF StorageGet(e, ReplicaSetKey(rs.name), Fails(f, 1)) = "" THEN ErrAlreadyExists
    ELSE ""

ReplicaSetCreate(e, rs, f) ==
    LET err == ReplicaSetCreateCheck(e, rs, f)
    IN IF err # "" THEN [etcd |-> e, err |-> err]
       ELSE StorageWrite(e, StorageCreate(e, ReplicaSetKey(rs.name),
                                          EncodeReplicaSet(rs)),
                         Fails(f, 2))

\* a variant that tells a failed read from a missing key
ReplicaSetGet_ReadErrorKept(e, name, f) ==
    LET err == StorageGet(e, ReplicaSetKey(name), Fails(f, 1))
    IN IF err = "" THEN [err |-> "", rs |-> DecodeReplicaSet(e[ReplicaSetKey(name)])]
       ELSE IF err = ErrStorageNotFound THEN [err |-> ErrNotFound, rs |-> NoReplicaSet]
       ELSE [err |-> ErrInternal, rs |-> NoReplicaSet]

\* Get: every error of the read is ErrReplicaSetNotFound
ReplicaSetGet(e, name, f) ==
    IF StorageGet(e, ReplicaSetKey(name), Fails(f, 1)) = ""
    THEN [err |-> "", rs |-> DecodeReplicaSet(e[ReplicaSetKey(name)])]
    ELSE [err |-> ErrNotFound, rs |-> NoReplicaSet]

\* Update: every error of the read is ErrReplicaSetNotFound; no validation
ReplicaSetUpdate(e, rs, f) ==
    IF StorageGet(e, ReplicaSetKey(rs.name), Fails(f, 1)) # ""
    THEN [etcd |-> e, err |-> ErrNotFound]
    ELSE StorageWrite(e, StorageUpdate(e, ReplicaSetKey(rs.name), EncodeReplicaSet(rs)),
                      Fails(f, 2))

ReplicaSetDelete(e, name, f) ==
    StorageWrite(e, StorageDelete(e, ReplicaSetKey(name)), Fails(f, 1))

ReplicaSetList(e) ==
    Let(StorageList(e, replicaSetPrefix),
        LAMBDA values : [i \in 1 .. Len(values) |-> DecodeReplicaSet(values[i])])

(***************************************************************************)
(* ReplicaSetController                                                    *)
(***************************************************************************)
getPodsForReplicaSet(rs, allPods) ==
    LET condition(p) == IsPodActiveAndOwnedBy(p, rs.name)
    IN SelectSeq(allPods, condition)

RECURSIVE ContainersToCreate_OneShort(_, _)
\* a variant whose replica loop stops one replica short
ContainersToCreate_OneShort(missing, containers) ==
    IF missing <= 1 THEN <<>>
    ELSE containers \o ContainersToCreate_OneShort(missing - 1, containers)

\* the containers the creation loop of Reconcile visits, in order: for each
\* missing replica, each container of the template
RECURSIVE ContainersToCreate(_, _)
ContainersToCreate(missing, containers) ==
    IF missing <= 0 THEN <<>>
    ELSE containers \o ContainersToCreate(missing - 1, containers)

\* the creation loop: one CreatePod per container, each name drawn from the
\* random source in its current state; the first error ends Reconcile
RECURSIVE CreateLoop(_, _, _, _, _)
CreateLoop(e, rsName, todo, seed, done) ==
    IF done >= Len(todo) THEN [etcd |-> e, err |-> "", writes |-> done]
    ELSE Let(CreatePod(e, Pod(generatePodNameFromReplicaSet(rsName, seed),
                              PodSpec(<<todo[done + 1]>>, FALSE, 0), <<>>, ""),
                       NoFaults),
             LAMBDA r :
               IF r.err # "" THEN [etcd |-> e, err |-> r.err, writes |-> done]
               ELSE Let(r.etcd,
                        LAMBDA created :
                          CreateLoop(created, rsName, todo, NextSeed(seed), done + 1)))

\* Reconcile from the comparison of the pod count with spec.replicas on
ReconcileCounted(e, currentRS, currentPodCount, seed) ==
    LET desiredPodCount == currentRS.replicas
        updated == [currentRS EXCEPT !.statusReplicas = desiredPodCount]
    IN IF currentPodCount < desiredPodCount
       THEN Let(CreateLoop(e, currentRS.name,
                           ContainersToCreate(desiredPodCount - currentPodCount,
                                              currentRS.template.containers),
                           seed, 0),
                LAMBDA c :
                  IF c.err # "" THEN c
                  ELSE Let(ReplicaSetUpdate(c.etcd, updated, NoFaults),
                           LAMBDA u : [etcd |-> u.etcd, err |-> u.err,
                                       writes |-> c.writes + (IF u.err = "" THEN 1 ELSE 0)]))
       ELSE IF currentPodCount > desiredPodCount
            THEN Let(ReplicaSetUpdate(e, updated, NoFaults),
                     LAMBDA u : [etcd |-> u.etcd, err |-> u.err,
                                 writes |-> IF u.err = "" THEN 1 ELSE 0])
            ELSE [etcd |-> e, err |-> "", writes |-> 0]

\* Reconcile(rs); seed is the state of the random source when it is called.
\* The result carries the store, the error and the number of writes made.
Reconcile(e, name, seed) ==
    Let(ReplicaSetGet(e, name, NoFaults),
        LAMBDA g :
          IF g.err # "" THEN [etcd |-> e, err |-> g.err, writes |-> 0]
          ELSE Let(Len(getPodsForReplicaSet(g.rs, ListPods(e))),
                   LAMBDA currentPodCount :
                     ReconcileCounted(e, g.rs, currentPodCount, seed)))

(***************************************************************************)
(* Scheduler                                                               *)
(***************************************************************************)
\* a variant that records the node but leaves the status as it was
Bind_StatusKept(pod, node) == [pod EXCEPT !.nodeName = node.name]

\* the binding the scheduler writes for one pending pod
Bind(pod, node) == [pod EXCEPT !.nodeName = node.name, !.status = PodScheduled]

\* the loop over the pending pods; pick[i] is rand.Intn(len(nodes)) + 1 for
\* the i-th pod; the first failed update ends the tick
RECURSIVE ScheduleLoop(_, _, _, _, _)
ScheduleLoop(e, pendingPods, nodeList, pick, done) ==
    IF done >= Len(pendingPods) THEN [etcd |-> e, err |-> "", writes |-> done]
    ELSE Let(UpdatePod(e, Bind(pendingPods[done + 1], nodeList[pick[done + 1]]),
                       NoFaults),
             LAMBDA r :
               IF r.err # "" THEN [etcd |-> e, err |-> r.err, writes |-> done]
               ELSE Let(r.etcd,
                        LAMBDA bound :
                          ScheduleLoop(bound, pendingPods, nodeList, pick, done + 1)))

\* a variant without the early return on an empty node list: the pods are
\* bound to a node value that names no node
schedulePendingPods_NoEmptyCheck(e, pick) ==
    LET pendingPods == ListPendingPods(e)
        nodeList == ListNodes(e)
    IN IF Len(nodeList) = 0
       THEN ScheduleLoop(e, pendingPods, <<Node(<<>>, FALSE, "")>>,
                         [i \in 1 .. Len(pendingPods) |-> 1], 0)
       ELSE ScheduleLoop(e, pendingPods, nodeList, pick, 0)

schedulePendingPods(e, pick) ==
    LET pendingPods == ListPendingPods(e)
        nodeList == ListNodes(e)
    IN IF Len(nodeList) = 0 THEN [etcd |-> e, err |-> ErrNoNodes, writes |-> 0]
       ELSE ScheduleLoop(e, pendingPods, nodeList, pick, 0)

(***************************************************************************)
(* HTTP handlers.  A request body is a JSON value, or BadJson for a body   *)
(* ReadEntity cannot decode.  A response is the sequence of status codes   *)
(* the handler passed to WriteError / WriteResponse, in order; the status  *)
(* line on the wire carries the first of them.                             *)
(***************************************************************************)
BadJson == [malformed |-> TRUE]

Response(e, codes) == [etcd |-> e, codes |-> codes]
StatusCode(resp) == resp.codes[1]

\* the status a load filter (LoadPodIntoRequest, LoadNodeIntoRequest,
\* LoadReplicasetIntoRequest) writes for an error of the registry's Get
LoadFilterStatus(err) == IF err = ErrNotFound THEN 404 ELSE 500

\* POST /pods
PodHandlerCreatePod(e, body, f) ==
    IF body = BadJson THEN Response(e, <<400>>)
    ELSE LET r == CreatePod(e, DecodePod(body), f)
         IN IF r.err = ErrAlreadyExists THEN Response(r.etcd, <<409, 201>>)
            ELSE IF r.err = ErrInvalid THEN Response(r.etcd, <<400>>)
            ELSE IF r.err # "" THEN Response(r.etcd, <<500>>)
            ELSE Response(r.etcd, <<201>>)

\* GET /pods/{name}, behind the filter LoadPodIntoRequest
PodHandlerGetPod(e, name, f) ==
    LET g == GetPod(e, name, f)
    IN IF g.err # "" THEN Response(e, <<LoadFilterStatus(g.err)>>)
       ELSE Response(e, <<200>>)

\* PUT /pods/{name}, behind the filter LoadPodIntoRequest
PodHandlerUpdatePod(e, name, body, f) ==
    LET g == GetPod(e, name, f)
    IN IF g.err # "" THEN Response(e, <<LoadFilterStatus(g.err)>>)
       ELSE IF body = BadJson THEN Response(e, <<400>>)
       ELSE IF g.pod.name # DecodePod(body).name THEN Response(e, <<400>>)
       ELSE LET r == UpdatePod(e, DecodePod(body), RestFaults(f, 1))
            IN IF r.err = ErrInvalid THEN Response(r.etcd, <<400>>)
               ELSE IF r.err # "" THEN Response(r.etcd, <<500>>)
               ELSE Response(r.etcd, <<200>>)

\* DELETE /pods/{name}, behind the filter LoadPodIntoRequest
PodHandlerDeletePod(e, name, f) ==
    LET g == GetPod(e, name, f)
    IN IF g.err # "" THEN Response(e, <<LoadFilterStatus(g.err)>>)
       ELSE LET r == DeletePod(e, g.pod.name, RestFaults(f, 1))
            IN IF r.err # "" THEN Response(r.etcd, <<500>>)
               ELSE Response(r.etcd, <<204>>)

\* GET /pods: the list, encoded into the response body
PodHandlerListPods(e) ==
    Let(ListPods(e), LAMBDA pods : [i \in 1 .. Len(pods) |-> EncodePod(pods[i])])

\* GET /pods, GET /pods/unassigned, GET /nodes, GET /replicasets: the status;
\* the registry's List fails when the range read does
HandlerListStatus(e, f) == IF Fails(f, 1) THEN Response(e, <<500>>) ELSE Response(e, <<200>>)

\* POST /nodes
NodeHandlerCreateNode(e, body, f) ==
    IF body = BadJson THEN Response(e, <<400>>)
    ELSE LET r == CreateNode(e, DecodeNode(body), f)
         IN IF r.err = ErrAlreadyExists THEN Response(r.etcd, <<409>>)
            ELSE IF r.err = ErrInvalid THEN Response(r.etcd, <<400>>)
            ELSE IF r.err # "" THEN Response(r.etcd, <<500>>)
            ELSE Response(r.etcd, <<201>>)

\* GET /nodes/{name}, behind the filter LoadNodeIntoRequest
NodeHandlerGetNode(e, name, f) ==
    LET g == GetNode(e, name, f)
    IN IF g.err # "" THEN Response(e, <<LoadFilterStatus(g.err)>>)
       ELSE Response(e, <<200>>)

\* PUT /nodes/{name}, behind the filter LoadNodeIntoRequest
NodeHandlerUpdateNode(e, name, body, f) ==
    LET g == GetNode(e, name, f)
    IN IF g.err # "" THEN Response(e, <<LoadFilterStatus(g.err)>>)
       ELSE IF body = BadJson THEN Response(e, <<400>>)
       ELSE IF g.node.name # DecodeNode(body).name THEN Response(e, <<400>>)
       ELSE LET r == UpdateNode(e, DecodeNode(body), RestFaults(f, 1))
            IN IF r.err = ErrInvalid THEN Response(r.etcd, <<400>>)
               ELSE IF r.err # "" THEN Response(r.etcd, <<500>>)
               ELSE Response(r.etcd, <<200>>)

\* DELETE /nodes/{name}, behind the filter LoadNodeIntoRequest
NodeHandlerDeleteNode(e, name, f) ==
    LET g == GetNode(e, name, f)
    IN IF g.err # "" THEN Response(e, <<LoadFilterStatus(g.err)>>)
       ELSE LET r == DeleteNode(e, g.node.name, RestFaults(f, 1))
            IN IF r.err # "" THEN Response(r.etcd, <<500>>)
               ELSE Response(r.etcd, <<204>>)

\* POST /replicasets
ReplicasetHandlerCreateReplicaset(e, body, f) ==
    IF body = BadJson THEN Response(e, <<400>>)
    ELSE LET r == ReplicaSetCreate(e, DecodeReplicaSet(body), f)
         IN IF r.err = ErrAlreadyExists THEN Response(r.etcd, <<409>>)
            ELSE IF r.err # "" THEN Response(r.etcd, <<500>>)
            ELSE Response(r.etcd, <<201>>)

\* GET /replicasets/{name}, behind the filter LoadReplicasetIntoRequest
ReplicasetHandlerGetReplicaset(e, name, f) ==
    LET g == ReplicaSetGet(e, name, f)
    IN IF g.err # "" THEN Response(e, <<LoadFilterStatus(g.err)>>)
       ELSE Response(e, <<200>>)

\* PUT /replicasets/{name}, behind the filter LoadReplicasetIntoRequest;
\* every error of the registry's Update is a 500
ReplicasetHandlerUpdateReplicaset(e, name, body, f) ==
    LET g == ReplicaSetGet(e, name, f)
    IN IF g.err # "" THEN Response(e, <<LoadFilterStatus(g.err)>>)
       ELSE IF body = BadJson THEN Response(e, <<400>>)
       ELSE IF g.rs.name # DecodeReplicaSet(body).name THEN Response(e, <<400>>)
       ELSE LET r == ReplicaSetUpdate(e, DecodeReplicaSet(body), RestFaults(f, 1))
            IN IF r.err # "" THEN Response(r.etcd, <<500>>)
               ELSE Response(r.etcd, <<200>>)

\* DELETE /replicasets/{name}, behind the filter LoadReplicasetIntoRequest
ReplicasetHandlerDeleteReplicaset(e, name, f) ==
    LET g == ReplicaSetGet(e, name, f)
    IN IF g.err # "" THEN Response(e, <<LoadFilterStatus(g.err)>>)
       ELSE LET r == ReplicaSetDelete(e, g.rs.name, RestFaults(f, 1))
            IN IF r.err # "" THEN Response(r.etcd, <<500>>)
               ELSE Response(r.etcd, <<204>>)

(***************************************************************************)
(* ReplicaSetController.Run: Reconcile for every ReplicaSet of the list;   *)
(* the first error ends the process (log.Fatalf).                          *)
(***************************************************************************)
RECURSIVE RunLoop(_, _, _, _)
RunLoop(e, rscList, seeds, done) ==
    IF done >= Len(rscList) THEN [etcd |-> e, err |-> ""]
    ELSE Let(Reconcile(e, rscList[done + 1].name, seeds[done + 1]),
             LAMBDA r :
               IF r.err # "" THEN [etcd |-> r.etcd, err |-> r.err]
               ELSE Let(r.etcd, LAMBDA after : RunLoop(after, rscList, seeds, done + 1)))

\* seeds[i] is the state of the random source when the i-th Reconcile starts
Run(e, seeds) == Let(ReplicaSetList(e), LAMBDA rscList : RunLoop(e, rscList, seeds, 0))

(***************************************************************************)
(* Kubelet                                                                 *)
(***************************************************************************)
\* what ContainerInspect reports for a container name
containerState(exists, running, exitCode) ==
    [exists |-> exists, running |-> running, exitCode |-> exitCode]

\* getContainerState: not found is exists = false, the rest zero
ContainerStates ==
    {containerState(FALSE, FALSE, 0), containerState(TRUE, TRUE, 0),
     containerState(TRUE, FALSE, 0), containerState(TRUE, FALSE, 1)}

\* a variant that holds a pod without any existing container for failed
anyContainerExists_Always(states) == TRUE

\* a variant that looks for a failed pod before it looks for a running one
determinePodStatus_FailedFirst(states) ==
    IF (\A i \in 1 .. Len(states) : ~(states[i].exists /\ states[i].exitCode = 0))
       /\ (\E i \in 1 .. Len(states) : states[i].exists) THEN PodFailed
    ELSE IF \E i \in 1 .. Len(states) : states[i].running THEN PodRunning
    ELSE IF \A i \in 1 .. Len(states) : states[i].exitCode = 0 THEN PodSucceeded
    ELSE PodScheduled

allContainersSucceeded(states) == \A i \in 1 .. Len(states) : states[i].exitCode = 0
anyContainerRunning(states) == \E i \in 1 .. Len(states) : states[i].running
allContainersFailed(states) ==
    \A i \in 1 .. Len(states) : ~(states[i].exists /\ states[i].exitCode = 0)
anyContainerExists(states) == \E i \in 1 .. Len(states) : states[i].exists

determinePodStatus(states) ==
    IF anyContainerRunning(states) THEN PodRunning
    ELSE IF allContainersFailed(states) /\ anyContainerExists(states) THEN PodFailed
    ELSE IF allContainersSucceeded(states) THEN PodSucceeded
    ELSE PodScheduled

\* registerNode: the body of the POST /nodes request
RegisterNodeBody(nodeName) == EncodeNode(Node(nodeName, FALSE, NodeReady))

\* a variant that takes any answer of the API server for a success
registerNode_AnyAnswer(e, nodeName, reachable, f) ==
    IF ~reachable THEN [etcd |-> e, code |-> 0, err |-> TRUE]
    ELSE LET resp == NodeHandlerCreateNode(e, RegisterNodeBody(nodeName), f)
         IN [etcd |-> resp.etcd, code |-> StatusCode(resp), err |-> FALSE]

\* registerNode: the POST /nodes request; code is the status of the answer,
\* 0 when the request could not be sent or got no answer; err says whether
\* registerNode returns an error
registerNode(e, nodeName, reachable, f) ==
    IF ~reachable THEN [etcd |-> e, code |-> 0, err |-> TRUE]
    ELSE LET resp == NodeHandlerCreateNode(e, RegisterNodeBody(nodeName), f)
         IN [etcd |-> resp.etcd, code |-> StatusCode(resp),
             err |-> StatusCode(resp) # 201]

\* getPodAssignments: the pods of the GET /pods response, by name
getPodAssignments(e) ==
    Let(PodHandlerListPods(e),
        LAMBDA body : [i \in 1 .. Len(body) |-> DecodePod(body[i])])

\* runNewPods: every pod of the list that is not in the table is put in it
runNewPods(table, pods) ==
    LET new == {i \in 1 .. Len(pods) : pods[i].name \notin DOMAIN table}
    IN [n \in DOMAIN table \cup {pods[i].name : i \in new} |->
            IF n \in DOMAIN table THEN table[n]
            ELSE pods[CHOOSE i \in new : pods[i].name = n]]

\* updatePodStatus: PUT /pods/{name} with the pod of the table as body
updatePodStatus(e, pod) == PodHandlerUpdatePod(e, pod.name, EncodePod(pod), NoFaults)

(***************************************************************************)
(* The objects the checks draw from.                                       *)
(***************************************************************************)
\* node names "n1", "n2"
N1 == <<110, 49>>
N2 == <<110, 50>>
NodeNameSets == {{}, {N1}, {N1, N2}}

\* ReplicaSet names: "r", and a name of 60 characters
ShortRSName == <<114>>
LongRSName == [i \in 1 .. MaxGeneratedNameLength + 2 |-> 114]
RSNames == {ShortRSName, LongRSName}

ContainerA == Container("c1", "img1")
ContainerB == Container("c2", "img2")
UnnamedContainer == Container("", "img1")

Templates ==
    {PodSpec(<<>>, TRUE, 0),
     PodSpec(<<ContainerA>>, FALSE, 0),
     PodSpec(<<ContainerA, ContainerB>>, FALSE, 0)}

\* pod names in the store at the start: a name the generator yields for "r",
\* "rx" (a user's pod that "r" owns by prefix), and "p"
UserOwnedPodName == <<114, 120>>
UserPodName == <<112>>
InitPodNames ==
    {GenerateName(ShortRSName, 1), UserOwnedPodName, UserPodName}

PodStatuses == {PodPending, PodScheduled, PodRunning, PodSucceeded, PodFailed}
InitPodStatuses == {PodPending, PodScheduled, PodSucceeded, PodFailed}

\* a stored pod of the given status: bound to n1 unless it is pending
StoredPod(name, status) ==
    Pod(name, PodSpec(<<ContainerA>>, FALSE, 0),
        IF status = PodPending THEN <<>> ELSE N1, status)

InitPodAssignments ==
    {a \in [InitPodNames -> InitPodStatuses \cup {"absent"}] :
        Cardinality({n \in InitPodNames : a[n] # "absent"}) <= MaxInitPods}

InitReplicaSets ==
    {ReplicaSet(ShortRSName, r, t, 0) : r \in 0 .. MaxReplicas, t \in Templates}
    \cup {ReplicaSet(LongRSName, 1, PodSpec(<<ContainerA>>, FALSE, 0), 0)}

EmptyStore == [k \in {} |-> TRUE]

PodStore(a) ==
    LET present == {n \in DOMAIN a : a[n] # "absent"}
    IN [k \in {PodKey(n) : n \in present} |->
            LET n == CHOOSE m \in present : PodKey(m) = k
            IN EncodePod(StoredPod(n, a[n]))]

NodeStore(names) ==
    [k \in {NodeKey(n) : n \in names} |->
        LET n == CHOOSE m \in names : NodeKey(m) = k
        IN EncodeNode(Node(n, FALSE, NodeReady))]

ReplicaSetStore(rss) ==
    [k \in {ReplicaSetKey(rs.name) : rs \in rss} |->
        LET rs == CHOOSE x \in rss : ReplicaSetKey(x.name) = k
        IN EncodeReplicaSet(rs)]

\* the stores a call sequence starts from: every object in them is one the
\* registries accept
InitStores ==
    {PodStore(a) @@ NodeStore(ns) @@ ReplicaSetStore(rss) :
        a \in InitPodAssignments, ns \in NodeNameSets,
        rss \in {{}} \cup {{rs} : rs \in InitReplicaSets}}

NoRace == [kind |-> "none"]

\* the scheduler between ticks
Idle == [pc |-> "idle", pods |-> <<>>, nodes |-> <<>>]

\* NewKubelet: the agent of node n1, its pod table empty
NewKubelet == [state |-> "new", nodeName |-> N1, pods |-> EmptyStore]

\* the bodies of the pods a GET /pods answers
PodHandlerListPodsSet(e) ==
    {PodHandlerListPods(e)[i] : i \in 1 .. Len(PodHandlerListPods(e))}

(***************************************************************************)
(* SeqSpec: calls of Reconcile and of the scheduler tick, one after the    *)
(* other, on a store of InitStores.  hist records each call with the store *)
(* it started from; the store a call left is the next call's start, or     *)
(* etcd for the last call.  A call sequence is about one ReplicaSet:       *)
(* Reconcile calls for it with ticks in between, or it is ticks only.      *)
(***************************************************************************)
CanReconcile(name) ==
    /\ Len(hist) < MaxOps
    /\ hist # <<>> => hist[1].op = "Reconcile" /\ hist[1].name = name

CanTick ==
    /\ Len(hist) < MaxOps
    /\ hist # <<>> => hist[Len(hist)].op = "Reconcile" \/ hist[1].op = "Tick"

Call(op, name, pre, r) ==
    [op |-> op, name |-> name, pre |-> pre, err |-> r.err, writes |-> r.writes]

SeqInit ==
    /\ etcd \in InitStores
    /\ hist = <<>>
    /\ race = NoRace
    /\ ctrl = "running"
    /\ sched = Idle
    /\ kubelet = NewKubelet
    /\ clients = 0

SeqReconcile ==
    /\ \E name \in RSNames :
        /\ CanReconcile(name)
        /\ \E seed \in Seeds :
            LET r == Reconcile(etcd, name, seed)
            IN /\ etcd' = r.etcd
               /\ hist' = Append(hist, Call("Reconcile", name, etcd, r))
    /\ UNCHANGED <<race, components>>

\* the choices of rand.Intn for the pending pods of a tick
Picks(e) ==
    IF Len(ListNodes(e)) = 0 THEN {<<>>}
    ELSE [1 .. Len(ListPendingPods(e)) -> 1 .. Len(ListNodes(e))]

SeqTick ==
    /\ CanTick
    /\ \E pick \in Picks(etcd) :
            LET r == schedulePendingPods(etcd, pick)
            IN /\ etcd' = r.etcd
               /\ hist' = Append(hist, Call("Tick", <<>>, etcd, r))
    /\ UNCHANGED <<race, components>>

SeqNext == SeqReconcile \/ SeqTick

SeqSpec == SeqInit /\ [][SeqNext]_vars

(***************************************************************************)
(* ApiSpec: requests to the API server, handled one after the other, from  *)
(* an empty store.  hist records each request with the store it found and  *)
(* the status codes of its response.                                       *)
(***************************************************************************)
PodP == Pod(UserPodName, PodSpec(<<ContainerA>>, FALSE, 0), <<>>, "")

PodBodies ==
    {EncodePod(PodP),
     EncodePod([PodP EXCEPT !.nodeName = N1]),
     EncodePod([PodP EXCEPT !.nodeName = N1, !.status = PodScheduled]),
     EncodePod([PodP EXCEPT !.spec = PodSpec(<<>>, TRUE, 0)]),
     EncodePod([PodP EXCEPT !.name = UserOwnedPodName]),
     BadJson}

NodeBodies == {RegisterNodeBody(N1), EncodeNode(Node(<<>>, FALSE, ""))}

ReplicaSetBodies ==
    {EncodeReplicaSet(ReplicaSet(ShortRSName, n, PodSpec(<<ContainerA>>, FALSE, 0), 0)) :
        n \in 1 .. MaxReplicas}

Request(op, name, body, pre, resp) ==
    [op |-> op, name |-> name, body |-> body, pre |-> pre, codes |-> resp.codes]

ApiInit ==
    /\ etcd = EmptyStore
    /\ hist = <<>>
    /\ race = NoRace
    /\ ctrl = "running"
    /\ sched = Idle
    /\ kubelet = NewKubelet
    /\ clients = 0

ApiCreatePod ==
    /\ Len(hist) < MaxOps
    /\ \E body \in PodBodies :
        LET resp == PodHandlerCreatePod(etcd, body, NoFaults)
        IN /\ etcd' = resp.etcd
           /\ hist' = Append(hist, Request("POST /pods", <<>>, body, etcd, resp))
    /\ UNCHANGED <<race, components>>

ApiUpdatePod ==
    /\ Len(hist) < MaxOps
    /\ \E body \in PodBodies :
        LET resp == PodHandlerUpdatePod(etcd, UserPodName, body, NoFaults)
        IN /\ etcd' = resp.etcd
           /\ hist' = Append(hist, Request("PUT /pods", UserPodName, body, etcd, resp))
    /\ UNCHANGED <<race, components>>

ApiDeletePod ==
    /\ Len(hist) < MaxOps
    /\ LET resp == PodHandlerDeletePod(etcd, UserPodName, NoFaults)
       IN /\ etcd' = resp.etcd
          /\ hist' = Append(hist, Request("DELETE /pods", UserPodName, BadJson, etcd, resp))
    /\ UNCHANGED <<race, components>>

ApiCreateNode ==
    /\ Len(hist) < MaxOps
    /\ \E body \in NodeBodies :
        LET resp == NodeHandlerCreateNode(etcd, body, NoFaults)
        IN /\ etcd' = resp.etcd
           /\ hist' = Append(hist, Request("POST /nodes", <<>>, body, etcd, resp))
    /\ UNCHANGED <<race, components>>

ApiCreateReplicaset ==
    /\ Len(hist) < MaxOps
    /\ \E body \in ReplicaSetBodies :
        LET resp == ReplicasetHandlerCreateReplicaset(etcd, body, NoFaults)
        IN /\ etcd' = resp.etcd
           /\ hist' = Append(hist, Request("POST /replicasets", <<>>, body, etcd, resp))
    /\ UNCHANGED <<race, components>>

ApiNext ==
    \/ ApiCreatePod
    \/ ApiUpdatePod
    \/ ApiDeletePod
    \/ ApiCreateNode
    \/ ApiCreateReplicaset

ApiSpec == ApiInit /\ [][ApiNext]_vars

(***************************************************************************)
(* RaceSpec: two Create calls for the same name in flight on one registry  *)
(* instance.  A call takes the registry's mutex where the registry has     *)
(* one, reads the key, validates, writes, and returns (releasing the       *)
(* mutex).  NodeRegistry has no mutex.                                     *)
(***************************************************************************)
RaceKinds == {"pod", "node", "replicaset"}
HasMutex(kind) == kind # "node"

RaceObjects(kind) ==
    IF kind = "pod" THEN {PodP, [PodP EXCEPT !.nodeName = N1]}
    ELSE IF kind = "node" THEN {Node(N1, FALSE, NodeReady), Node(N1, TRUE, NodeNotReady)}
    ELSE {ReplicaSet(ShortRSName, n, PodSpec(<<ContainerA>>, FALSE, 0), 0) : n \in 1 .. 2}

RaceStores == {EmptyStore, NodeStore({N2})}

RaceKey(kind, obj) ==
    IF kind = "pod" THEN PodKey(obj.name)
    ELSE IF kind = "node" THEN NodeKey(obj.name)
    ELSE ReplicaSetKey(obj.name)

RaceEncode(kind, obj) ==
    IF kind = "pod" THEN EncodePod(DefaultedPod(obj))
    ELSE IF kind = "node" THEN EncodeNode(obj)
    ELSE EncodeReplicaSet(obj)

RaceCheckErr(kind, e, obj) ==
    IF kind = "pod" THEN CreatePodCheck(e, obj, NoFaults)
    ELSE IF kind = "node" THEN CreateNodeCheck(e, obj, NoFaults)
    ELSE ReplicaSetCreateCheck(e, obj, NoFaults)

RaceInit ==
    /\ etcd \in RaceStores
    /\ hist = <<>>
    /\ \E kind \in RaceKinds :
        \E objs \in [1 .. 2 -> RaceObjects(kind)] :
            race = [kind |-> kind, objs |-> objs,
                    pc |-> [i \in 1 .. 2 |-> "start"],
                    err |-> [i \in 1 .. 2 |-> ""]]
    /\ ctrl = "running"
    /\ sched = Idle
    /\ kubelet = NewKubelet
    /\ clients = 0

MutexHeld == \E i \in 1 .. 2 : race.pc[i] \in {"locked", "checked"}

\* r.mutex.Lock()
RaceLock(i) ==
    /\ HasMutex(race.kind)
    /\ race.pc[i] = "start"
    /\ ~MutexHeld
    /\ race' = [race EXCEPT !.pc[i] = "locked"]
    /\ UNCHANGED <<etcd, hist, components>>

\* storage.Get and the validation; an error returns
RaceCheck(i) ==
    /\ race.pc[i] = (IF HasMutex(race.kind) THEN "locked" ELSE "start")
    /\ LET err == RaceCheckErr(race.kind, etcd, race.objs[i])
       IN race' = [race EXCEPT !.pc[i] = IF err = "" THEN "checked" ELSE "done",
                               !.err[i] = err]
    /\ UNCHANGED <<etcd, hist, components>>

\* storage.Create, and the return
RacePut(i) ==
    /\ race.pc[i] = "checked"
    /\ etcd' = StorageCreate(etcd, RaceKey(race.kind, race.objs[i]),
                             RaceEncode(race.kind, race.objs[i]))
    /\ race' = [race EXCEPT !.pc[i] = "done"]
    /\ UNCHANGED <<hist, components>>

RaceNext == \E i \in 1 .. 2 : RaceLock(i) \/ RaceCheck(i) \/ RacePut(i)

RaceSpec == RaceInit /\ [][RaceNext]_vars

(***************************************************************************)
(* Spec: the whole system from an empty store.  Clients send requests to   *)
(* the API server; the controller, the scheduler and the node agent of     *)
(* node n1 run their loops, interleaved.                                   *)
(***************************************************************************)
Init ==
    /\ etcd = EmptyStore
    /\ hist = <<>>
    /\ race = NoRace
    /\ ctrl = "running"
    /\ sched = Idle
    /\ kubelet = NewKubelet
    /\ clients = 0

ClientCreateReplicaset ==
    /\ clients < MaxRequests
    /\ \E body \in ReplicaSetBodies :
        etcd' = ReplicasetHandlerCreateReplicaset(etcd, body, NoFaults).etcd
    /\ clients' = clients + 1
    /\ UNCHANGED <<hist, race, ctrl, sched, kubelet>>

ClientCreateNode ==
    /\ clients < MaxRequests
    /\ etcd' = NodeHandlerCreateNode(etcd, RegisterNodeBody(N2), NoFaults).etcd
    /\ clients' = clients + 1
    /\ UNCHANGED <<hist, race, ctrl, sched, kubelet>>

ClientCreatePod ==
    /\ clients < MaxRequests
    /\ \E body \in {EncodePod(PodP), EncodePod([PodP EXCEPT !.nodeName = N1])} :
        etcd' = PodHandlerCreatePod(etcd, body, NoFaults).etcd
    /\ clients' = clients + 1
    /\ UNCHANGED <<hist, race, ctrl, sched, kubelet>>

\* a client that read a pod sends it back with another nodeName
ClientUpdatePod ==
    /\ clients < MaxRequests
    /\ \E body \in PodHandlerListPodsSet(etcd) :
        LET pod == DecodePod(body)
        IN etcd' = PodHandlerUpdatePod(etcd, pod.name,
                                       EncodePod([pod EXCEPT !.nodeName = N2]),
                                       NoFaults).etcd
    /\ clients' = clients + 1
    /\ UNCHANGED <<hist, race, ctrl, sched, kubelet>>

ClientDeletePod ==
    /\ clients < MaxRequests
    /\ \E body \in PodHandlerListPodsSet(etcd) :
        etcd' = PodHandlerDeletePod(etcd, DecodePod(body).name, NoFaults).etcd
    /\ clients' = clients + 1
    /\ UNCHANGED <<hist, race, ctrl, sched, kubelet>>

\* one tick of ReplicaSetController.Start
ControllerRun ==
    /\ ctrl = "running"
    /\ \E seeds \in [1 .. Len(ReplicaSetList(etcd)) -> Seeds] :
        \E r \in {Run(etcd, seeds)} :
            /\ etcd' = r.etcd
            /\ ctrl' = IF r.err # "" THEN "dead" ELSE "running"
    /\ UNCHANGED <<hist, race, sched, kubelet, clients>>

\* schedulePendingPods up to its loop: the two lists
SchedulerList ==
    /\ sched.pc = "idle"
    /\ \E pendingPods \in {ListPendingPods(etcd)}, nodeList \in {ListNodes(etcd)} :
        sched' = IF Len(nodeList) = 0 \/ Len(pendingPods) = 0
                 THEN Idle
                 ELSE [pc |-> "binding", pods |-> pendingPods, nodes |-> nodeList]
    /\ UNCHANGED <<etcd, hist, race, ctrl, kubelet, clients>>

\* one turn of the loop of schedulePendingPods
SchedulerBindTurn ==
    /\ sched.pc = "binding"
    /\ \E n \in 1 .. Len(sched.nodes) :
        \E r \in {UpdatePod(etcd, Bind(Head(sched.pods), sched.nodes[n]), NoFaults)} :
            /\ etcd' = r.etcd
            /\ sched' = IF r.err # "" \/ Len(sched.pods) = 1 THEN Idle
                        ELSE [sched EXCEPT !.pods = Tail(sched.pods)]
    /\ UNCHANGED <<race, ctrl, kubelet, clients>>

SchedulerBind == SchedulerBindTurn /\ UNCHANGED hist

\* Kubelet.Start: registerNode; an error ends the agent, else the two loops
\* are started
KubeletRegister ==
    /\ kubelet.state = "new"
    /\ LET r == registerNode(etcd, kubelet.nodeName, TRUE, NoFaults)
       IN /\ etcd' = r.etcd
          /\ kubelet' = [kubelet EXCEPT
                            !.state = IF r.err THEN "failed" ELSE "running"]
    /\ UNCHANGED <<hist, race, ctrl, sched, clients>>

\* one turn of watchPods
KubeletWatchPods ==
    /\ kubelet.state = "running"
    /\ \E pods \in {getPodAssignments(etcd)} :
        kubelet' = [kubelet EXCEPT !.pods = runNewPods(kubelet.pods, pods)]
    /\ UNCHANGED <<etcd, hist, race, ctrl, sched, clients>>

\* updatePodStatuses for one pod of the table
KubeletUpdatePodStatuses ==
    /\ kubelet.state = "running"
    /\ \E name \in DOMAIN kubelet.pods :
        \E states \in [1 .. Len(kubelet.pods[name].spec.containers) -> ContainerStates] :
            \E pod \in {kubelet.pods[name]}, status \in {determinePodStatus(states)} :
                IF pod.status # status
                THEN /\ kubelet' = [kubelet EXCEPT !.pods[name].status = status]
                     /\ etcd' = updatePodStatus(etcd, [pod EXCEPT !.status = status]).etcd
                ELSE UNCHANGED <<etcd, kubelet>>
    /\ UNCHANGED <<hist, race, ctrl, sched, clients>>

Next ==
    \/ ClientCreateReplicaset
    \/ ClientCreateNode
    \/ ClientCreatePod
    \/ ClientUpdatePod
    \/ ClientDeletePod
    \/ ControllerRun
    \/ SchedulerList
    \/ SchedulerBind
    \/ KubeletRegister
    \/ KubeletWatchPods
    \/ KubeletUpdatePodStatuses

Spec == Init /\ [][Next]_vars

(***************************************************************************)
(* FairSpec: the loops alone, on a store that holds a ReplicaSet with a    *)
(* one-container template and the node of a registered agent.  Each loop   *)
(* runs on a ticker, so each of its steps is taken again and again.        *)
(***************************************************************************)
FairStores ==
    {NodeStore(ns) @@ ReplicaSetStore({DecodeReplicaSet(body)}) :
        ns \in {{N1}, {N1, N2}}, body \in ReplicaSetBodies}

FairInit ==
    /\ etcd \in FairStores
    /\ hist = <<>>
    /\ race = NoRace
    /\ ctrl = "running"
    /\ sched = Idle
    /\ kubelet = [NewKubelet EXCEPT !.state = "running"]
    /\ clients = 0

FairNext ==
    \/ ControllerRun
    \/ SchedulerList
    \/ SchedulerBind
    \/ KubeletWatchPods
    \/ KubeletUpdatePodStatuses

FairSpec ==
    /\ FairInit
    /\ [][FairNext]_vars
    /\ WF_vars(ControllerRun)
    /\ WF_vars(SchedulerList)
    /\ WF_vars(SchedulerBind)
    /\ WF_vars(KubeletWatchPods)
    /\ WF_vars(KubeletUpdatePodStatuses)

(***************************************************************************)
(* BindSpec: the loops of FairSpec, interleaved; hist holds the bindings   *)
(* the scheduler has written, in order.                                    *)
(***************************************************************************)
\* the pods of this specification are the controller's, which are valid, so
\* the UpdatePod of every turn writes
BindRecorded ==
    /\ SchedulerBindTurn
    /\ hist' = Append(hist, [op |-> "bind", name |-> Head(sched.pods).name])

BindNext ==
    \/ ControllerRun
    \/ SchedulerList
    \/ BindRecorded
    \/ KubeletWatchPods
    \/ KubeletUpdatePodStatuses

BindSpec == FairInit /\ [][BindNext]_vars

(***************************************************************************)
(* WriteBackSpec: one Reconcile, taken in two steps, and one PUT of the    *)
(* ReplicaSet through the API, on a store of InitStores.  race holds the   *)
(* ReplicaSet that Reconcile read while the call is under way; hist holds  *)
(* the PUT and the end of Reconcile, in the order they happened.           *)
(***************************************************************************)
Reconciling == race.kind = "reconcile"
Happened(op) == \E i \in 1 .. Len(hist) : hist[i].op = op

\* Reconcile up to the return of replicaSetRegistry.Get
ReconcileRead ==
    /\ ~Reconciling
    /\ ~Happened("Reconcile")
    /\ \E name \in RSNames :
        LET g == ReplicaSetGet(etcd, name, NoFaults)
        IN IF g.err # ""
           THEN /\ hist' = Append(hist, [op |-> "Reconcile", name |-> name,
                                         err |-> g.err, writes |-> 0])
                /\ race' = race
           ELSE /\ race' = [kind |-> "reconcile", rs |-> g.rs]
                /\ hist' = hist
    /\ UNCHANGED <<etcd, components>>

\* Reconcile from podRegistry.ListPods on, with the ReplicaSet it read
ReconcileWrite ==
    /\ Reconciling
    /\ \E seed \in Seeds :
        LET r == ReconcileCounted(etcd, race.rs,
                                  Len(getPodsForReplicaSet(race.rs, ListPods(etcd))),
                                  seed)
        IN /\ etcd' = r.etcd
           /\ hist' = Append(hist, [op |-> "Reconcile", name |-> race.rs.name,
                                    err |-> r.err, writes |-> r.writes])
    /\ race' = NoRace
    /\ UNCHANGED components

\* PUT /replicasets/{name}: a client sends the stored ReplicaSet with another
\* spec.replicas
ClientPutReplicaset ==
    /\ ~Happened("PUT")
    /\ \E name \in RSNames, n \in 1 .. MaxReplicas + 1 :
        /\ ReplicaSetGet(etcd, name, NoFaults).err = ""
        /\ n # ReplicaSetGet(etcd, name, NoFaults).rs.replicas
        /\ LET body == EncodeReplicaSet([ReplicaSetGet(etcd, name, NoFaults).rs
                                            EXCEPT !.replicas = n])
               resp == ReplicasetHandlerUpdateReplicaset(etcd, name, body, NoFaults)
           IN /\ etcd' = resp.etcd
              /\ hist' = Append(hist, [op |-> "PUT", name |-> name, replicas |-> n,
                                       codes |-> resp.codes,
                                       reconciling |-> Reconciling])
    /\ UNCHANGED <<race, components>>

WriteBackNext ==
    \/ ReconcileRead
    \/ ReconcileWrite
    \/ ClientPutReplicaset

WriteBackSpec == SeqInit /\ [][WriteBackNext]_vars

(***************************************************************************)
(* StopSpec: the loops of FairSpec and the cancellation of the context     *)
(* that the controller and the scheduler were started with.  hist holds    *)
(* the cancellation once it has happened.  The node agent's two loops      *)
(* take no context.                                                        *)
(***************************************************************************)
Cancelled == hist # <<>>

\* cancel()
Cancel ==
    /\ ~Cancelled
    /\ hist' = <<[op |-> "cancel"]>>
    /\ UNCHANGED <<etcd, race, components>>

StopControllerRun == ~Cancelled /\ ControllerRun

\* ReplicaSetController.Start after the cancellation: when ticker.C is ready
\* as well, select may take it, and Run, which passes context.Background()
\* to the registries, runs once more; a Run that was under way when the
\* context was cancelled ends the same way
ControllerLastRun ==
    /\ Cancelled
    /\ ctrl = "running"
    /\ \E seeds \in [1 .. Len(ReplicaSetList(etcd)) -> Seeds] :
        \E r \in {Run(etcd, seeds)} :
            /\ etcd' = r.etcd
            /\ ctrl' = IF r.err # "" THEN "dead" ELSE "stopped"
    /\ UNCHANGED <<hist, race, sched, kubelet, clients>>

\* ReplicaSetController.Start: case <-ctx.Done()
ControllerStop ==
    /\ Cancelled
    /\ ctrl = "running"
    /\ ctrl' = "stopped"
    /\ UNCHANGED <<etcd, hist, race, sched, kubelet, clients>>

StopSchedulerList == ~Cancelled /\ SchedulerList
StopSchedulerBind == ~Cancelled /\ SchedulerBind

\* Scheduler.Start after the cancellation: schedulePendingPods passes the
\* cancelled context to the registries, so the next storage call of a tick
\* fails and the tick returns its error; then case <-ctx.Done()
SchedulerStop ==
    /\ Cancelled
    /\ sched.pc # "stopped"
    /\ sched' = [Idle EXCEPT !.pc = "stopped"]
    /\ UNCHANGED <<etcd, hist, race, ctrl, kubelet, clients>>

StopNext ==
    \/ Cancel
    \/ StopControllerRun
    \/ ControllerLastRun
    \/ ControllerStop
    \/ StopSchedulerList
    \/ StopSchedulerBind
    \/ SchedulerStop
    \/ KubeletWatchPods
    \/ KubeletUpdatePodStatuses

StopSpec == FairInit /\ [][StopNext]_vars

(***************************************************************************)
(* RegistrySpec: a call of Create, Update or Delete on one of the three    *)
(* registries and a Get after it, on a store that holds objects the        *)
(* registries accepted and on an etcd client that may fail any storage     *)
(* call.  hist holds the call that writes, with the store it found, and    *)
(* after it the Get that followed.                                         *)
(***************************************************************************)
MaxStored == 1      \* objects in the store when a registry call or a request arrives

ImagelessContainer == Container("c1", "")
NodeNameCleaned == <<110, 49, 47>>   \* "n1/": path.Join makes its key that of "n1"

RegistryKinds == {"pod", "node", "replicaset"}

RegistryObjects(kind) ==
    IF kind = "pod"
    THEN {PodP,
          [PodP EXCEPT !.nodeName = N1, !.status = PodScheduled],
          [PodP EXCEPT !.name = <<>>],
          [PodP EXCEPT !.spec = PodSpec(<<>>, TRUE, 0)],
          [PodP EXCEPT !.spec = PodSpec(<<>>, FALSE, 0)],
          [PodP EXCEPT !.spec = PodSpec(<<UnnamedContainer>>, FALSE, 0)],
          [PodP EXCEPT !.spec = PodSpec(<<ContainerA, ImagelessContainer>>, FALSE, 0)],
          [PodP EXCEPT !.spec = PodSpec(<<ContainerA>>, FALSE, -1)]}
    ELSE IF kind = "node"
    THEN {Node(N1, FALSE, NodeReady), Node(N1, TRUE, ""),
          Node(NodeNameCleaned, FALSE, NodeNotReady), Node(<<>>, FALSE, NodeReady)}
    ELSE {ReplicaSet(ShortRSName, n, PodSpec(<<ContainerA>>, FALSE, 0), 0) :
              n \in 1 .. MaxReplicas}
         \cup {ReplicaSet(<<>>, 1, PodSpec(<<ContainerA>>, FALSE, 0), 0),
               ReplicaSet(ShortRSName, -1, PodSpec(<<ContainerA>>, FALSE, 0), 0),
               ReplicaSet(ShortRSName, 1, PodSpec(<<>>, TRUE, 0), 1),
               ReplicaSet(ShortRSName, 1, PodSpec(<<UnnamedContainer>>, FALSE, 0), 0)}

RegistryNames(kind) == {obj.name : obj \in RegistryObjects(kind)}

\* which of the storage calls of an operation the client fails
Faults(n) == [1 .. n -> BOOLEAN]

RegistryCreate(kind, e, obj, f) ==
    IF kind = "pod" THEN CreatePod(e, obj, f)
    ELSE IF kind = "node" THEN CreateNode(e, obj, f)
    ELSE ReplicaSetCreate(e, obj, f)

RegistryUpdate(kind, e, obj, f) ==
    IF kind = "pod" THEN UpdatePod(e, obj, f)
    ELSE IF kind = "node" THEN UpdateNode(e, obj, f)
    ELSE ReplicaSetUpdate(e, obj, f)

RegistryDelete(kind, e, name, f) ==
    IF kind = "pod" THEN DeletePod(e, name, f)
    ELSE IF kind = "node" THEN DeleteNode(e, name, f)
    ELSE ReplicaSetDelete(e, name, f)

\* the error and the object a registry's Get returns
RegistryGet(kind, e, name, f) ==
    IF kind = "pod" THEN [err |-> GetPod(e, name, f).err, obj |-> GetPod(e, name, f).pod]
    ELSE IF kind = "node"
         THEN [err |-> GetNode(e, name, f).err, obj |-> GetNode(e, name, f).node]
    ELSE [err |-> ReplicaSetGet(e, name, f).err, obj |-> ReplicaSetGet(e, name, f).rs]

RegistryCall(op, kind, name, obj, f, pre, err) ==
    [op |-> op, kind |-> kind, name |-> name, obj |-> obj, f |-> f, pre |-> pre,
     err |-> err]

\* the objects of a kind that Create accepts on an empty store
Accepted(kind) ==
    {obj \in RegistryObjects(kind) :
        RegistryCreate(kind, EmptyStore, obj, NoFaults).err = ""}

\* the store after Create calls for the objects, each accepted or refused
RECURSIVE CreatedStore(_, _)
CreatedStore(e, objs) ==
    IF objs = {} THEN e
    ELSE LET o == CHOOSE x \in objs : TRUE
         IN CreatedStore(RegistryCreate(o[1], e, o[2], NoFaults).etcd, objs \ {o})

\* the stores a call or a request finds: at most MaxStored objects
AcceptedObjects == UNION {{<<kind, obj>> : obj \in Accepted(kind)} : kind \in RegistryKinds}

Stores ==
    {CreatedStore(EmptyStore, objs) :
        objs \in {S \in SUBSET AcceptedObjects : Cardinality(S) <= MaxStored}}

RegistryInit ==
    /\ etcd \in Stores
    /\ hist = <<>>
    /\ race = NoRace
    /\ ctrl = "running"
    /\ sched = Idle
    /\ kubelet = NewKubelet
    /\ clients = 0

RegistryCreateCall ==
    /\ hist = <<>>
    /\ \E kind \in RegistryKinds :
        \E obj \in RegistryObjects(kind), f \in Faults(2) :
            LET r == RegistryCreate(kind, etcd, obj, f)
            IN /\ etcd' = r.etcd
               /\ hist' = <<RegistryCall("Create", kind, obj.name, obj, f, etcd, r.err)>>
    /\ UNCHANGED <<race, components>>

RegistryUpdateCall ==
    /\ hist = <<>>
    /\ \E kind \in RegistryKinds :
        \E obj \in RegistryObjects(kind), f \in Faults(2) :
            LET r == RegistryUpdate(kind, etcd, obj, f)
            IN /\ etcd' = r.etcd
               /\ hist' = <<RegistryCall("Update", kind, obj.name, obj, f, etcd, r.err)>>
    /\ UNCHANGED <<race, components>>

RegistryDeleteCall ==
    /\ hist = <<>>
    /\ \E kind \in RegistryKinds :
        \E name \in RegistryNames(kind), f \in Faults(1) :
            LET r == RegistryDelete(kind, etcd, name, f)
            IN /\ etcd' = r.etcd
               /\ hist' = <<RegistryCall("Delete", kind, name, <<>>, f, etcd, r.err)>>
    /\ UNCHANGED <<race, components>>

\* a Get after the call that writes, recorded with the object it returned
RegistryGetCall ==
    /\ Len(hist) = 1
    /\ \E name \in RegistryNames(hist[1].kind), f \in Faults(1) :
            LET g == RegistryGet(hist[1].kind, etcd, name, f)
            IN hist' = Append(hist, RegistryCall("Get", hist[1].kind, name, g.obj, f,
                                                 etcd, g.err))
    /\ UNCHANGED <<etcd, race, components>>

RegistryNext ==
    \/ RegistryCreateCall
    \/ RegistryUpdateCall
    \/ RegistryDeleteCall
    \/ RegistryGetCall

RegistrySpec == RegistryInit /\ [][RegistryNext]_vars

(***************************************************************************)
(* RouteSpec: a request to any route of the API server, on a store that    *)
(* holds objects the registries accepted and on an etcd client that may    *)
(* fail any storage call.  hist holds the request, with the store it       *)
(* found, the storage calls that failed and the status codes of the        *)
(* response.                                                               *)
(***************************************************************************)
\* the names a URL carries: "p", "rx"; "n1", "n2"; "r", "rx"
RouteNames(kind) ==
    IF kind = "pod" THEN {UserPodName, UserOwnedPodName}
    ELSE IF kind = "node" THEN {N1, N2}
    ELSE {ShortRSName, UserOwnedPodName}

RouteEncode(kind, obj) ==
    IF kind = "pod" THEN EncodePod(obj)
    ELSE IF kind = "node" THEN EncodeNode(obj)
    ELSE EncodeReplicaSet(obj)

\* request bodies: the objects of RegistryObjects, an object under the
\* second name of the kind, and a body that is not JSON
RouteBodies(kind) ==
    {RouteEncode(kind, obj) : obj \in RegistryObjects(kind)}
    \cup {RouteEncode(kind, [obj EXCEPT !.name = UserOwnedPodName]) :
              obj \in {o \in RegistryObjects(kind) : o.name = UserPodName \/ o.name = ShortRSName}}
    \cup {RouteEncode(kind, [obj EXCEPT !.name = N2]) :
              obj \in {o \in RegistryObjects(kind) : o.name = N1}}
    \cup {BadJson}

\* the name in a body
BodyName(body) == body.metadata.name

HandlerCreate(kind, e, body, f) ==
    IF kind = "pod" THEN PodHandlerCreatePod(e, body, f)
    ELSE IF kind = "node" THEN NodeHandlerCreateNode(e, body, f)
    ELSE ReplicasetHandlerCreateReplicaset(e, body, f)

HandlerGet(kind, e, name, f) ==
    IF kind = "pod" THEN PodHandlerGetPod(e, name, f)
    ELSE IF kind = "node" THEN NodeHandlerGetNode(e, name, f)
    ELSE ReplicasetHandlerGetReplicaset(e, name, f)

HandlerUpdate(kind, e, name, body, f) ==
    IF kind = "pod" THEN PodHandlerUpdatePod(e, name, body, f)
    ELSE IF kind = "node" THEN NodeHandlerUpdateNode(e, name, body, f)
    ELSE ReplicasetHandlerUpdateReplicaset(e, name, body, f)

HandlerDelete(kind, e, name, f) ==
    IF kind = "pod" THEN PodHandlerDeletePod(e, name, f)
    ELSE IF kind = "node" THEN NodeHandlerDeleteNode(e, name, f)
    ELSE ReplicasetHandlerDeleteReplicaset(e, name, f)

RouteRequest(op, kind, name, body, f, pre, resp) ==
    [op |-> op, kind |-> kind, name |-> name, body |-> body, f |-> f, pre |-> pre,
     codes |-> resp.codes]

RouteInit ==
    /\ etcd \in Stores
    /\ hist = <<>>
    /\ race = NoRace
    /\ ctrl = "running"
    /\ sched = Idle
    /\ kubelet = NewKubelet
    /\ clients = 0

\* POST /{kind}
RoutePost ==
    /\ hist = <<>>
    /\ \E kind \in RegistryKinds :
        \E body \in RouteBodies(kind), f \in Faults(2) :
            LET resp == HandlerCreate(kind, etcd, body, f)
            IN /\ etcd' = resp.etcd
               /\ hist' = <<RouteRequest("POST", kind, <<>>, body, f, etcd, resp)>>
    /\ UNCHANGED <<race, components>>

\* GET /{kind}/{name}
RouteGet ==
    /\ hist = <<>>
    /\ \E kind \in RegistryKinds :
        \E name \in RouteNames(kind), f \in Faults(1) :
            LET resp == HandlerGet(kind, etcd, name, f)
            IN /\ etcd' = resp.etcd
               /\ hist' = <<RouteRequest("GET", kind, name, BadJson, f, etcd, resp)>>
    /\ UNCHANGED <<race, components>>

\* PUT /{kind}/{name}
RoutePut ==
    /\ hist = <<>>
    /\ \E kind \in RegistryKinds :
        \E name \in RouteNames(kind), body \in RouteBodies(kind), f \in Faults(3) :
            LET resp == HandlerUpdate(kind, etcd, name, body, f)
            IN /\ etcd' = resp.etcd
               /\ hist' = <<RouteRequest("PUT", kind, name, body, f, etcd, resp)>>
    /\ UNCHANGED <<race, components>>

\* DELETE /{kind}/{name}
RouteDelete ==
    /\ hist = <<>>
    /\ \E kind \in RegistryKinds :
        \E name \in RouteNames(kind), f \in Faults(2) :
            LET resp == HandlerDelete(kind, etcd, name, f)
            IN /\ etcd' = resp.etcd
               /\ hist' = <<RouteRequest("DELETE", kind, name, BadJson, f, etcd, resp)>>
    /\ UNCHANGED <<race, components>>

\* GET /{kind}
RouteList ==
    /\ hist = <<>>
    /\ \E kind \in RegistryKinds :
        \E f \in Faults(1) :
            LET resp == HandlerListStatus(etcd, f)
            IN /\ etcd' = resp.etcd
               /\ hist' = <<RouteRequest("LIST", kind, <<>>, BadJson, f, etcd, resp)>>
    /\ UNCHANGED <<race, components>>

RouteNext ==
    \/ RoutePost
    \/ RouteGet
    \/ RoutePut
    \/ RouteDelete
    \/ RouteList

RouteSpec == RouteInit /\ [][RouteNext]_vars

(***************************************************************************)
(* AgentSpec: the node agent of n1 alone, started on a store that holds    *)
(* objects the registries accepted.  Its registration request may not      *)
(* reach the API server, and the server's storage calls may fail.  hist    *)
(* holds the registration: the status of its answer.                      *)
(***************************************************************************)
\* the stores of the agent's start: a registered node beside a pod needs
\* one object more than Stores holds
AgentStores ==
    {CreatedStore(EmptyStore, objs) :
        objs \in {S \in SUBSET AcceptedObjects : Cardinality(S) <= MaxStored + 1}}

AgentInit ==
    /\ etcd \in AgentStores
    /\ hist = <<>>
    /\ race = NoRace
    /\ ctrl = "running"
    /\ sched = Idle
    /\ kubelet = NewKubelet
    /\ clients = 0

\* Kubelet.Start
AgentStart ==
    /\ kubelet.state = "new"
    /\ \E reachable \in BOOLEAN, f \in Faults(2) :
        LET r == registerNode(etcd, kubelet.nodeName, reachable, f)
        IN /\ etcd' = r.etcd
           /\ hist' = <<[op |-> "registerNode", code |-> r.code]>>
           /\ kubelet' = [kubelet EXCEPT
                             !.state = IF r.err THEN "failed" ELSE "running"]
    /\ UNCHANGED <<race, ctrl, sched, clients>>

AgentNext ==
    \/ AgentStart
    \/ KubeletWatchPods
    \/ KubeletUpdatePodStatuses

AgentSpec == AgentInit /\ [][AgentNext]_vars

(***************************************************************************)
(* StatusSpec: getPodStatus on one pod.  The runtime reports a state for   *)
(* each container name of the pod; hist holds the reported list and then   *)
(* the status derived from it.  getContainerState inspects by the          *)
(* container's name, so the states are those of any container of that      *)
(* name on the host: none, running, exited with any code, or restarting,   *)
(* which the runtime reports as running with the exit code of the last     *)
(* run.                                                                    *)
(***************************************************************************)
MaxContainers == 3
MaxExitCode == 1

ExitCodes == 0 .. MaxExitCode

\* getContainerState over every answer of ContainerInspect
InspectedStates ==
    {containerState(FALSE, FALSE, 0)} \cup
    {containerState(TRUE, running, exitCode) :
        running \in BOOLEAN, exitCode \in ExitCodes}

StateLists == UNION {[1 .. n -> InspectedStates] : n \in 0 .. MaxContainers}

StatusInit ==
    /\ etcd = EmptyStore
    /\ hist \in {<<[op |-> "getContainerState", states |-> states]>> :
                    states \in StateLists}
    /\ race = NoRace
    /\ ctrl = "running"
    /\ sched = Idle
    /\ kubelet = NewKubelet
    /\ clients = 0

\* getPodStatus: the status of the inspected states
GetPodStatus ==
    /\ Len(hist) = 1
    /\ hist' = Append(hist, [op |-> "determinePodStatus",
                             status |-> determinePodStatus(hist[1].states)])
    /\ UNCHANGED <<etcd, race, ctrl, sched, kubelet, clients>>

StatusNext == GetPodStatus

StatusSpec == StatusInit /\ [][StatusNext]_vars

(***************************************************************************)
(* NameSpec: one call of GenerateName.  hist holds the base and the state  *)
(* of the random source, then the name returned.  The bases are runs of    *)
(* one character up to MaxBaseLength long, which is past the length the    *)
(* generator keeps; the states of the source are those that differ in the  *)
(* groups of bits String reads.                                            *)
(***************************************************************************)
MaxBaseLength == 60

\* "r", "-", "9"
BaseChars == {114, 45, 57}
Bases == {[i \in 1 .. n |-> c] : n \in 0 .. MaxBaseLength, c \in BaseChars}
SourceStates == 0 .. alphanumsIdxMask

NameInit ==
    /\ etcd = EmptyStore
    /\ hist \in {<<[op |-> "base", base |-> base, seed |-> seed]>> :
                    base \in Bases, seed \in SourceStates}
    /\ race = NoRace
    /\ ctrl = "running"
    /\ sched = Idle
    /\ kubelet = NewKubelet
    /\ clients = 0

GenerateNameCall ==
    /\ Len(hist) = 1
    /\ hist' = Append(hist, [op |-> "GenerateName",
                             name |-> GenerateName(hist[1].base, hist[1].seed)])
    /\ UNCHANGED <<etcd, race, ctrl, sched, kubelet, clients>>

NameNext == GenerateNameCall

NameSpec == NameInit /\ [][NameNext]_vars

(***************************************************************************)
(* ReportSpec: the status reporter of a running agent, on a store that     *)
(* holds its node and at most MaxInitPods pods.  The runtime reports one   *)
(* state for the container name c1 and keeps to it; the API server is out  *)
(* of reach once, for a while.  hist holds the runtime's state, then the   *)
(* outage and every PUT of the reporter with the status of its answer, 0   *)
(* when the request got no answer.  Both loops of the agent run on a       *)
(* timer for ever, and the outage ends.                                    *)
(***************************************************************************)
ReportInit ==
    /\ etcd \in {PodStore(a) @@ NodeStore({N1}) : a \in InitPodAssignments}
    /\ hist \in {<<[op |-> "runtime", state |-> s]>> : s \in ContainerStates}
    /\ race = NoRace
    /\ ctrl = "running"
    /\ sched = Idle
    /\ kubelet = [NewKubelet EXCEPT !.state = "running"]
    /\ clients = 0

Unreachable ==
    \E i \in 1 .. Len(hist) :
        hist[i].op = "down" /\ \A j \in i + 1 .. Len(hist) : hist[j].op # "up"

ServerDown ==
    /\ \A i \in 1 .. Len(hist) : hist[i].op # "down"
    /\ hist' = Append(hist, [op |-> "down"])
    /\ UNCHANGED <<etcd, race, components>>

ServerUp ==
    /\ Unreachable
    /\ hist' = Append(hist, [op |-> "up"])
    /\ UNCHANGED <<etcd, race, components>>

\* one turn of watchPods; a failed getPodAssignments changes nothing
ReportWatch == ~Unreachable /\ KubeletWatchPods

\* getPodStatus of a pod of the table, from the runtime's state
ReportedStatus(pod) ==
    determinePodStatus([i \in 1 .. Len(pod.spec.containers) |-> hist[1].state])

\* updatePodStatuses for one pod of the table whose status has changed: the
\* table takes the status, then updatePodStatus sends the PUT
ReportTick ==
    /\ kubelet.state = "running"
    /\ \E name \in DOMAIN kubelet.pods :
        \E pod \in {kubelet.pods[name]}, status \in {ReportedStatus(kubelet.pods[name])} :
            /\ pod.status # status
            /\ kubelet' = [kubelet EXCEPT !.pods[name].status = status]
            /\ IF Unreachable
               THEN /\ etcd' = etcd
                    /\ hist' = Append(hist, [op |-> "PUT", name |-> pod.name,
                                             status |-> status, code |-> 0])
               ELSE \E resp \in {updatePodStatus(etcd, [pod EXCEPT !.status = status])} :
                    /\ etcd' = resp.etcd
                    /\ hist' = Append(hist, [op |-> "PUT", name |-> pod.name,
                                             status |-> status,
                                             code |-> StatusCode(resp)])
    /\ UNCHANGED <<race, ctrl, sched, clients>>

ReportNext ==
    \/ ServerDown
    \/ ServerUp
    \/ ReportWatch
    \/ ReportTick

ReportSpec ==
    /\ ReportInit
    /\ [][ReportNext]_vars
    /\ WF_vars(ServerUp)
    /\ WF_vars(ReportWatch)
    /\ WF_vars(ReportTick)

(***************************************************************************)
(* RunSpec: runPod on one pod of a running agent's table.  The container  *)
(* runtime decides for each container of the pod how StartContainer ends. *)
(* hist holds the pod, then the call with its outcomes and what it did.    *)
(***************************************************************************)
ContainerC == Container("c3", "img3")
RunContainers == <<ContainerA, ContainerB, ContainerC>>

\* how the runtime lets a StartContainer end: the step that fails, or none
StartOutcomes == {"started", "ImagePull", "Copy", "ContainerCreate", "ContainerStart"}

\* StartContainer: the error it returns, "" for none; an error of ImagePull
\* is a panic
StartContainer(outcome) ==
    CASE outcome = "ImagePull" -> "panic"
      [] outcome = "Copy" -> "failed to pull image"
      [] outcome = "ContainerCreate" -> "failed to create container"
      [] outcome = "ContainerStart" -> "failed to start container"
      [] OTHER -> ""

\* runPod from container i on: the containers it called StartContainer for,
\* the containers whose error it logged, and whether it panicked
RECURSIVE runPodFrom(_, _, _, _)
runPodFrom(containers, outcomes, i, r) ==
    IF i > Len(containers) THEN r
    ELSE Let(StartContainer(outcomes[i]),
             LAMBDA err :
               IF err = "panic"
               THEN [r EXCEPT !.tried = Append(@, containers[i].name), !.panic = TRUE]
               ELSE runPodFrom(containers, outcomes, i + 1,
                        [r EXCEPT !.tried = Append(@, containers[i].name),
                                  !.logged = IF err = "" THEN @
                                             ELSE Append(@, containers[i].name)]))

runPod(pod, outcomes) ==
    runPodFrom(pod.spec.containers, outcomes, 1,
               [tried |-> <<>>, logged |-> <<>>, panic |-> FALSE])

RunPods ==
    {Pod(UserPodName, PodSpec(SubSeq(RunContainers, 1, n), FALSE, 0), N1, PodScheduled) :
        n \in 0 .. IF MaxContainers < Len(RunContainers) THEN MaxContainers
                   ELSE Len(RunContainers)}

RunInit ==
    /\ etcd = NodeStore({N1})
    /\ hist = <<>>
    /\ race = NoRace
    /\ ctrl = "running"
    /\ sched = Idle
    /\ \E pod \in RunPods :
        kubelet = [state |-> "running", nodeName |-> N1,
                   pods |-> [n \in {pod.name} |-> pod]]
    /\ clients = 0

\* the goroutine runNewPods started for the pod; a panic in it ends the
\* process
RunPod ==
    /\ kubelet.state = "running"
    /\ hist = <<>>
    /\ \E name \in DOMAIN kubelet.pods :
        \E outcomes \in [1 .. Len(kubelet.pods[name].spec.containers) -> StartOutcomes] :
            \E r \in {runPod(kubelet.pods[name], outcomes)} :
                /\ hist' = <<[op |-> "runPod", name |-> name, outcomes |-> outcomes,
                              tried |-> r.tried, logged |-> r.logged]>>
                /\ kubelet' = [kubelet EXCEPT
                                  !.state = IF r.panic THEN "crashed" ELSE @]
    /\ UNCHANGED <<etcd, race, ctrl, sched, clients>>

RunNext == RunPod

RunSpec == RunInit /\ [][RunNext]_vars

(***************************************************************************)
(* TableSpec: the two goroutines of a running agent, step by step, on the  *)
(* pod table k.pods they share.  The poller lists the pods and then goes   *)
(* through the list, writing each new pod to the table; the reporter       *)
(* ranges over the table.  Nothing orders the steps of the two.  race      *)
(* holds where each goroutine is; hist holds every write to the table and  *)
(* whether a range over the table was under way.  A map write during a     *)
(* range is a data race: the Go runtime may end the process on it, and     *)
(* the range may or may not come to the new entry.                        *)
(***************************************************************************)
TableAssignments ==
    {a \in [InitPodNames -> InitPodStatuses \cup {"absent"}] :
        Cardinality({n \in InitPodNames : a[n] # "absent"}) <= MaxInitPods + 1}

\* the table after earlier turns of the poller: some of the stored pods
TableOf(e, names) ==
    [n \in {m \in names : PodKey(m) \in DOMAIN e} |-> DecodePod(e[PodKey(n)])]

TableIdle == [kind |-> "table", polling |-> FALSE, pending |-> <<>>,
              ranging |-> FALSE, todo |-> {}]

TableInit ==
    /\ etcd \in {PodStore(a) @@ NodeStore({N1}) : a \in TableAssignments}
    /\ hist = <<>>
    /\ race = TableIdle
    /\ ctrl = "running"
    /\ sched = Idle
    /\ \E names \in SUBSET InitPodNames :
        kubelet = [state |-> "running", nodeName |-> N1, pods |-> TableOf(etcd, names)]
    /\ clients = 0

\* watchPods: getPodAssignments
PollerList ==
    /\ kubelet.state = "running"
    /\ ~race.polling
    /\ \E pods \in {getPodAssignments(etcd)} :
        race' = [race EXCEPT !.polling = Len(pods) > 0, !.pending = pods]
    /\ UNCHANGED <<etcd, hist, components>>

\* one turn of the loop of runNewPods
PollerWrite ==
    /\ kubelet.state = "running"
    /\ race.polling
    /\ \E pod \in {Head(race.pending)} :
        IF pod.name \in DOMAIN kubelet.pods
        THEN /\ race' = [race EXCEPT !.pending = Tail(@), !.polling = Len(race.pending) > 1]
             /\ UNCHANGED <<hist, kubelet>>
        ELSE /\ hist' = Append(hist, [op |-> "write", name |-> pod.name,
                                      ranging |-> race.ranging])
             /\ \E crash \in {FALSE, race.ranging}, seen \in {FALSE, race.ranging} :
                /\ kubelet' = [kubelet EXCEPT
                                  !.state = IF crash THEN "crashed" ELSE @,
                                  !.pods = runNewPods(@, <<pod>>)]
                /\ race' = [race EXCEPT
                               !.pending = Tail(@), !.polling = Len(race.pending) > 1,
                               !.todo = IF seen THEN @ \cup {pod.name} ELSE @]
    /\ UNCHANGED <<etcd, ctrl, sched, clients>>

\* updatePodStatuses: a tick starts the range over the table
ReporterRange ==
    /\ kubelet.state = "running"
    /\ ~race.ranging
    /\ DOMAIN kubelet.pods # {}
    /\ race' = [race EXCEPT !.ranging = TRUE, !.todo = DOMAIN kubelet.pods]
    /\ UNCHANGED <<etcd, hist, components>>

\* one turn of the range of updatePodStatuses
ReporterVisit ==
    /\ kubelet.state = "running"
    /\ race.ranging
    /\ \E name \in race.todo :
        /\ race' = [race EXCEPT !.todo = @ \ {name}, !.ranging = race.todo # {name}]
        /\ \E states \in [1 .. Len(kubelet.pods[name].spec.containers) -> ContainerStates] :
            \E pod \in {kubelet.pods[name]}, status \in {determinePodStatus(states)} :
                IF pod.status # status
                THEN /\ kubelet' = [kubelet EXCEPT !.pods[name].status = status]
                     /\ etcd' = updatePodStatus(etcd, [pod EXCEPT !.status = status]).etcd
                ELSE UNCHANGED <<etcd, kubelet>>
    /\ UNCHANGED <<hist, ctrl, sched, clients>>

TableNext ==
    \/ PollerList
    \/ PollerWrite
    \/ ReporterRange
    \/ ReporterVisit

TableSpec == TableInit /\ [][TableNext]_vars

(***************************************************************************)
(* KeySpec: one call of Create, Update or Delete on one of the three       *)
(* registries, for an object the registry accepts under a name that may    *)
(* hold path elements, on a store of Stores and on storage that does not   *)
(* fail.  hist holds the call with the store it found.                     *)
(***************************************************************************)
\* "../../pods/p"
TraversalName == <<46, 46, 47, 46, 46, 47, 112, 111, 100, 115, 47, 112>>

KeyNames == {UserPodName, N1, NodeNameCleaned, TraversalName}

KeyObjects(kind) == {[obj EXCEPT !.name = n] : obj \in Accepted(kind), n \in KeyNames}

KeyCreateCall ==
    /\ hist = <<>>
    /\ \E kind \in RegistryKinds :
        \E obj \in KeyObjects(kind) :
            LET r == RegistryCreate(kind, etcd, obj, NoFaults)
            IN /\ etcd' = r.etcd
               /\ hist' = <<RegistryCall("Create", kind, obj.name, obj, NoFaults, etcd,
                                         r.err)>>
    /\ UNCHANGED <<race, components>>

KeyUpdateCall ==
    /\ hist = <<>>
    /\ \E kind \in RegistryKinds :
        \E obj \in KeyObjects(kind) :
            LET r == RegistryUpdate(kind, etcd, obj, NoFaults)
            IN /\ etcd' = r.etcd
               /\ hist' = <<RegistryCall("Update", kind, obj.name, obj, NoFaults, etcd,
                                         r.err)>>
    /\ UNCHANGED <<race, components>>

KeyDeleteCall ==
    /\ hist = <<>>
    /\ \E kind \in RegistryKinds :
        \E name \in KeyNames :
            LET r == RegistryDelete(kind, etcd, name, NoFaults)
            IN /\ etcd' = r.etcd
               /\ hist' = <<RegistryCall("Delete", kind, name, <<>>, NoFaults, etcd,
                                         r.err)>>
    /\ UNCHANGED <<race, components>>

KeyNext ==
    \/ KeyCreateCall
    \/ KeyUpdateCall
    \/ KeyDeleteCall

KeySpec == RegistryInit /\ [][KeyNext]_vars

(***************************************************************************)
(* Vocabulary of the properties, read off the store.                       *)
(***************************************************************************)
StoredPods(e) == {DecodePod(e[k]) : k \in {x \in DOMAIN e : HasPrefix(x, podPrefix)}}
StoredNodeNames(e) ==
    {DecodeNode(e[k]).name : k \in {x \in DOMAIN e : HasPrefix(x, nodePrefix)}}
HasReplicaSet(e, name) == ReplicaSetKey(name) \in DOMAIN e
StoredReplicaSet(e, name) == DecodeReplicaSet(e[ReplicaSetKey(name)])

\* owned: the pod's name begins with the ReplicaSet's name
OwnedBy(e, name) == {p \in StoredPods(e) : HasPrefix(p.name, name)}
\* active: Pending, Running, Succeeded or Scheduled
ActiveStatuses == {PodPending, PodRunning, PodSucceeded, PodScheduled}
ActiveOwnedBy(e, name) == {p \in OwnedBy(e, name) : p.status \in ActiveStatuses}

\* the store the i-th call of hist left behind
After(i) == IF i < Len(hist) THEN hist[i + 1].pre ELSE etcd

\* the i-th call is Reconcile of a stored ReplicaSet with current <= desired,
\* and the next call is a scheduler tick
ReconcileThenTick(i) ==
    /\ hist[i].op = "Reconcile"
    /\ HasReplicaSet(hist[i].pre, hist[i].name)
    /\ Cardinality(ActiveOwnedBy(hist[i].pre, hist[i].name))
         <= StoredReplicaSet(hist[i].pre, hist[i].name).replicas
    /\ i < Len(hist)
    /\ hist[i + 1].op = "Tick"

C3_NoCreationAtDesired ==
    \A i \in 1 .. Len(hist) :
        (/\ hist[i].op = "Reconcile"
         /\ HasReplicaSet(hist[i].pre, hist[i].name)
         /\ Cardinality(ActiveOwnedBy(hist[i].pre, hist[i].name))
              = StoredReplicaSet(hist[i].pre, hist[i].name).replicas) =>
            StoredPods(After(i)) = StoredPods(hist[i].pre)

\* Reconcile repeated three times on a ReplicaSet that has its two pods, one
\* of them succeeded
C3_Witness ==
    /\ Len(hist) = 3
    /\ \A i \in 2 .. 3 :
        /\ hist[i].op = "Reconcile"
        /\ HasReplicaSet(hist[i].pre, hist[i].name)
        /\ StoredReplicaSet(hist[i].pre, hist[i].name).replicas = 2
        /\ Cardinality(ActiveOwnedBy(hist[i].pre, hist[i].name)) = 2
        /\ \E p \in ActiveOwnedBy(hist[i].pre, hist[i].name) : p.status = PodSucceeded
        /\ StoredReplicaSet(hist[i].pre, hist[i].name).template.containers # <<>>

\* C4 as claimed: after every Reconcile(R) that returns without error, the
\* stored R.status.replicas equals the number of active pods owned by R in
\* the store.
C4_StatusIsObservedCount ==
    \A i \in 1 .. Len(hist) :
        (hist[i].op = "Reconcile" /\ hist[i].err = "") =>
            StoredReplicaSet(After(i), hist[i].name).statusReplicas
                = Cardinality(ActiveOwnedBy(After(i), hist[i].name))

C6_NoNodesNoWrite ==
    \A i \in 1 .. Len(hist) :
        (hist[i].op = "Tick" /\ StoredNodeNames(hist[i].pre) = {}) =>
            StoredPods(After(i)) = StoredPods(hist[i].pre)

\* three ticks without a node while a pod is pending
C6_Witness ==
    /\ Len(hist) = 3
    /\ \A i \in 1 .. 3 :
        /\ hist[i].op = "Tick"
        /\ StoredNodeNames(hist[i].pre) = {}
        /\ \E p \in StoredPods(hist[i].pre) : p.status = PodPending
    /\ \E p \in StoredPods(etcd) : p.status = PodPending /\ p.nodeName = <<>>

\* the store holds the ReplicaSet "r", exactly spec.replicas pods owned by it,
\* each Scheduled or Running on a registered node, and status.replicas says so
C2_Converged ==
    /\ HasReplicaSet(etcd, ShortRSName)
    /\ LET rs == StoredReplicaSet(etcd, ShortRSName)
           owned == OwnedBy(etcd, ShortRSName)
       IN /\ Cardinality(owned) = rs.replicas
          /\ \A p \in owned :
                /\ p.status \in {PodScheduled, PodRunning}
                /\ p.nodeName \in StoredNodeNames(etcd)
          /\ rs.statusReplicas = rs.replicas

\* C2 as claimed: with a ReplicaSet of a one-container template and n
\* replicas, a registered node, and the controller, the scheduler and the
\* node agent running, the system eventually holds exactly n pods owned by
\* the ReplicaSet, each Scheduled or Running on a registered node, with
\* status.replicas = n.
C2_EventuallyConverged == <>C2_Converged

\* C7 as claimed: in every reachable state of the store every pod with
\* status Pending has an empty nodeName.
C7_PendingHasNoNode ==
    \A p \in StoredPods(etcd) : p.status = PodPending => p.nodeName = <<>>

\* C8 as claimed: once a stored pod has a non-empty nodeName, no later write
\* changes that nodeName for as long as the pod exists.
C8_NodeNameImmutable ==
    [][\A k \in DOMAIN etcd \cap DOMAIN etcd' :
          (HasPrefix(k, podPrefix) /\ DecodePod(etcd[k]).nodeName # <<>>) =>
              DecodePod(etcd'[k]).nodeName = DecodePod(etcd[k]).nodeName]_vars

\* C9 as claimed: when the two Create calls for the same name have returned,
\* exactly one of them succeeded and the other returned AlreadyExists.
C9_ExactlyOneCreateSucceeds ==
    (\A i \in 1 .. 2 : race.pc[i] = "done") =>
        \E i \in 1 .. 2 :
            /\ race.err[i] = ""
            /\ race.err[3 - i] = ErrAlreadyExists

\* the i-th request is a POST /pods for a name that is in the store
ConflictingPost(i) ==
    /\ hist[i].op = "POST /pods"
    /\ hist[i].body # BadJson
    /\ StorageFound(hist[i].pre, PodKey(DecodePod(hist[i].body).name))

CreatedThenRead ==
    /\ Len(hist) = 2
    /\ hist[1].op = "Create"
    /\ hist[1].err = ""
    /\ hist[2].op = "Get"
    /\ hist[2].name = hist[1].name
    /\ ~Fails(hist[2].f, 1)

\* C11: for every object a registry Create accepted, a Get of the same name
\* with no write in between returns without error an object equal field by
\* field to the one submitted, except that a pod submitted with empty status
\* reads back with status Pending.
C11_CreateGetRoundTrip ==
    CreatedThenRead =>
        /\ hist[2].err = ""
        /\ hist[2].obj = IF hist[1].kind = "pod" /\ hist[1].obj.status = ""
                         THEN [hist[1].obj EXCEPT !.status = PodPending]
                         ELSE hist[1].obj

\* a pod created with a nodeName and the status Scheduled, and read back
C11_Witness ==
    /\ CreatedThenRead
    /\ hist[1].kind = "pod"
    /\ hist[1].obj.nodeName # <<>>
    /\ hist[2].obj.status = PodScheduled

\* the registry call of the last request failed on a storage call the client
\* failed: the read of a load filter (GET, PUT, DELETE of /{kind}/{name}), the
\* range read of a list, or the write of a POST that passed the registry's
\* checks
RegistryFailedOnBackend ==
    /\ hist # <<>>
    /\ \/ hist[1].op \in {"GET", "PUT", "DELETE", "LIST"} /\ Fails(hist[1].f, 1)
       \/ /\ hist[1].op = "POST"
          /\ Fails(hist[1].f, 2)
          /\ HandlerCreate(hist[1].kind, hist[1].pre, hist[1].body,
                           <<hist[1].f[1], FALSE>>).codes[1] = 201

\* C12 as claimed: on every route of every kind, a request whose registry
\* call fails on a storage backend failure is answered 500.
C12_BackendFailureIs500 ==
    RegistryFailedOnBackend => hist[1].codes[1] = 500

\* the n-th recorded call is a call of op on the ReplicaSet registry whose
\* storage read the client failed
ReplicaSetReadFailed(n, op) ==
    /\ Len(hist) >= n
    /\ hist[n].op = op
    /\ hist[n].kind = "replicaset"
    /\ Fails(hist[n].f, 1)

\* C13: a Get and an Update of the ReplicaSet registry whose storage read
\* fails return ReplicaSetNotFound, whether or not the ReplicaSet is stored,
\* and the Update writes nothing; on the store such a call found, a
\* GET /replicasets/{name} whose read fails is answered 404.
C13_ReplicaSetReadFailureIsNotFound ==
    /\ ReplicaSetReadFailed(1, "Update") =>
          /\ hist[1].err = ErrNotFound
          /\ etcd = hist[1].pre
    /\ ReplicaSetReadFailed(2, "Get") =>
          /\ hist[2].err = ErrNotFound
          /\ StatusCode(ReplicasetHandlerGetReplicaset(hist[2].pre, hist[2].name,
                                                       hist[2].f)) = 404

\* an Update of a stored ReplicaSet whose read failed, and after it a Get of
\* the same ReplicaSet whose read failed
C13_Witness ==
    /\ ReplicaSetReadFailed(1, "Update")
    /\ ReplicaSetReadFailed(2, "Get")
    /\ hist[2].name = hist[1].name
    /\ HasReplicaSet(etcd, hist[2].name)

\* the request is a PUT /{kind}/{name} with a JSON body, and its load filter
\* found an object
PutLoaded ==
    /\ hist # <<>>
    /\ hist[1].op = "PUT"
    /\ hist[1].body # BadJson
    /\ RegistryGet(hist[1].kind, hist[1].pre, hist[1].name, hist[1].f).err = ""

\* C14 as claimed, for the requests that pass the load filter: a PUT to
\* /{kind}/{name} whose body carries a name different from {name} answers 400
\* and writes nothing to the store, for pods, nodes and replicasets.
C14_NameMismatchIs400 ==
    (PutLoaded /\ BodyName(hist[1].body) # hist[1].name) =>
        /\ hist[1].codes[1] = 400
        /\ etcd = hist[1].pre

\* the names of the objects of a kind in the store
StoredNames(kind, e) ==
    IF kind = "pod" THEN {p.name : p \in StoredPods(e)}
    ELSE IF kind = "node" THEN StoredNodeNames(e)
    ELSE {DecodeReplicaSet(e[k]).name :
             k \in {x \in DOMAIN e : HasPrefix(x, replicaSetPrefix)}}

\* the request is a GET, PUT or DELETE of /{kind}/{name} and the store
\* answers the read of its load filter
ItemRequestRead ==
    /\ hist # <<>>
    /\ hist[1].op \in {"GET", "PUT", "DELETE"}
    /\ ~Fails(hist[1].f, 1)

\* C15 as claimed: GET, PUT and DELETE on /{kind}/{name} answer 404 and leave
\* the store unchanged whenever no object of that kind with that name is in
\* the store when the load filter runs.
C15_AbsentIs404 ==
    (ItemRequestRead /\ hist[1].name \notin StoredNames(hist[1].kind, hist[1].pre)) =>
        /\ hist[1].codes[1] = 404
        /\ etcd = hist[1].pre

\* a pod spec that fails the validation rules: no container, a container
\* without name or image, negative replicas
InvalidPodSpec(spec) ==
    \/ spec.containers = <<>>
    \/ \E i \in 1 .. Len(spec.containers) :
          spec.containers[i].name = "" \/ spec.containers[i].image = ""
    \/ spec.replicas < 0

\* an object that fails the validation rules of its kind
InvalidObject(kind, obj) ==
    \/ obj.name = <<>>
    \/ kind = "pod" /\ InvalidPodSpec(obj.spec)
    \/ kind = "replicaset" /\ obj.replicas < 0

\* the call is a Create of a name that is not stored, or an Update, and the
\* store answers its calls
CreateOrUpdateCall ==
    /\ hist # <<>>
    /\ hist[1].f = <<FALSE, FALSE>>
    /\ \/ hist[1].op = "Update"
       \/ /\ hist[1].op = "Create"
          /\ RegistryGet(hist[1].kind, hist[1].pre, hist[1].name, NoFaults).err # ""

\* C16 as claimed: Create and Update on every registry reject an object that
\* fails validation with Invalid, and the store is unchanged.
C16_InvalidObjectRejected ==
    (CreateOrUpdateCall /\ InvalidObject(hist[1].kind, hist[1].obj)) =>
        /\ hist[1].err = ErrInvalid
        /\ etcd = hist[1].pre

\* C17 as claimed: every pod in the node agent's table (recorded by
\* runNewPods, which starts the pod's runner in the same step) carries the
\* agent's own node name as nodeName.
C17_AgentRecordsOwnPodsOnly ==
    \A name \in DOMAIN kubelet.pods : kubelet.pods[name].nodeName = kubelet.nodeName

\* C18: the agent's first step is its registration, which records no pod
\* and starts the loops exactly when the POST was answered 201; after a
\* registration that was not answered 201 (no answer, 409, 400, 500) Start has
\* returned an error and the agent takes no further step: it polls no
\* assignment, records and starts no pod and reports no status.
C18_NoActivityUnlessRegistered ==
    [][/\ hist = <<>> =>
            /\ hist' # <<>>
            /\ kubelet'.pods = kubelet.pods
            /\ kubelet'.state = (IF hist'[1].code = 201 THEN "running" ELSE "failed")
       /\ (hist # <<>> /\ hist[1].code # 201) => UNCHANGED <<etcd, kubelet>>
       /\ (kubelet'.pods # kubelet.pods \/ (hist # <<>> /\ etcd' # etcd)) =>
            (hist # <<>> /\ hist[1].code = 201)]_vars

\* a registration answered 409, the node being registered already, while a
\* pod is in the store: the agent has failed and its table is empty
C18_Witness ==
    /\ hist # <<>>
    /\ hist[1].code = 409
    /\ kubelet.state = "failed"
    /\ kubelet.pods = EmptyStore
    /\ StoredPods(etcd) # {}

\* the container states of a derived status, as a set
DerivedFrom == {hist[1].states[i] : i \in 1 .. Len(hist[1].states)}
Derived == Len(hist) = 2 /\ hist[2].op = "determinePodStatus"

\* the table of the derivation, first matching row
StatusTable(S) ==
    IF \E c \in S : c.running THEN PodRunning
    ELSE IF (\E c \in S : c.exists) /\ ~(\E c \in S : c.exists /\ c.exitCode = 0)
         THEN PodFailed
    ELSE IF \A c \in S : c.exitCode = 0 THEN PodSucceeded
    ELSE PodScheduled

AllExistingFailed(S) ==
    /\ \E c \in S : c.exists
    /\ \A c \in S : c.exists => c.exitCode # 0

\* C20 as stated: the derived status is Failed if and only if at least one
\* container exists and every existing container has a non-zero exit code.
C20_FailedIffAllExistingFailed ==
    Derived => (hist[2].status = PodFailed <=> AllExistingFailed(DerivedFrom))

\* C20 amended: the derived status is Failed if and only if no container is
\* running, at least one container exists and every existing container has
\* a non-zero exit code.
C20_FailedIffNoneRunningAllExistingFailed ==
    Derived =>
        (hist[2].status = PodFailed <=>
            /\ ~(\E c \in DerivedFrom : c.running)
            /\ AllExistingFailed(DerivedFrom))

\* a restarting container beside one that exited with a non-zero code:
\* every existing container has a non-zero exit code and the status is
\* Running
C20_Witness ==
    /\ Derived
    /\ DerivedFrom = {containerState(TRUE, TRUE, 1), containerState(TRUE, FALSE, 1)}
    /\ hist[2].status = PodRunning

\* C21: no error of Reconcile terminates the controller: after every tick,
\* whatever its Reconcile calls returned, the controller is still running
\* and takes its next tick.
C21_ControllerSurvivesErrors == ctrl = "running"

\* the pods a call of hist added to the store
CreatedBy(i) ==
    {p \in StoredPods(After(i)) :
        \A q \in StoredPods(hist[i].pre) : q.name # p.name}

\* the ReplicaSet name as the generator keeps it
KeptBase(name) ==
    IF Len(name) > MaxGeneratedNameLength
    THEN SubSeq(name, 1, MaxGeneratedNameLength) ELSE name

\* "-"
Dash == <<45>>

\* C23: every pod that Reconcile creates for ReplicaSet R is named R.name
\* (its first 58 characters), then "-", then a suffix of 5 characters.
C23_PodNameHasDash ==
    \A i \in 1 .. Len(hist) :
        hist[i].op = "Reconcile" =>
            \A p \in CreatedBy(i) :
                /\ Len(p.name) = Len(KeptBase(hist[i].name)) + 1 + randomLength
                /\ SubSeq(p.name, 1, Len(KeptBase(hist[i].name)) + 1)
                     = KeptBase(hist[i].name) \o Dash

\* the characters the suffix may have
Alphabet == {alphanums[i] : i \in 1 .. Len(alphanums)}
Generated == Len(hist) = 2 /\ hist[2].op = "GenerateName"

\* C24: for a base of any length the generated name is at most 63
\* characters long and ends with 5 characters of bcdfghjklmnpqrstvwxz2456789,
\* which follow the base or its first 58 characters.
C24_NameValid ==
    Generated =>
        LET name == hist[2].name
            kept == KeptBase(hist[1].base)
        IN /\ Len(name) <= maxNameLength
           /\ Len(name) = Len(kept) + randomLength
           /\ SubSeq(name, 1, Len(kept)) = kept
           /\ \A i \in Len(kept) + 1 .. Len(name) : name[i] \in Alphabet

\* a base of 60 characters: the name has 63, the first 58 of the base and a
\* suffix
C24_Witness ==
    /\ Generated
    /\ Len(hist[1].base) = MaxGeneratedNameLength + 2
    /\ Len(hist[2].name) = maxNameLength

\* C22: once the context is cancelled and the controller and the scheduler
\* have ended the tick they were in, no loop writes to the store or to the
\* API any more: the agent's poller and its reporter have stopped as well.
C22_NoWriteAfterCancel ==
    [][(Cancelled /\ ctrl # "running" /\ sched.pc = "stopped") => etcd' = etcd]_vars

\* C25: Reconcile of a ReplicaSet that is not in the store writes nothing
\* and returns no error.
C25_AbsentReplicaSetIsNoOp ==
    \A i \in 1 .. Len(hist) :
        (hist[i].op = "Reconcile" /\ ~HasReplicaSet(hist[i].pre, hist[i].name)) =>
            /\ After(i) = hist[i].pre
            /\ hist[i].writes = 0
            /\ hist[i].err = ""

\* the keys of the pods that a step keeps in the store
KeptPodKeys == {k \in DOMAIN etcd \cap DOMAIN etcd' : HasPrefix(k, podPrefix)}

\* C26: every change of a stored pod's status that a control loop writes
\* (a step that is not a client's request) is Pending to Scheduled, written
\* by the scheduler's binding loop, or Scheduled to Running, Succeeded or
\* Failed, written by the node agent.
C26_StatusChangesFollowLifecycle ==
    [][clients' = clients =>
        \A k \in KeptPodKeys :
            LET old == DecodePod(etcd[k]).status
                new == DecodePod(etcd'[k]).status
            IN old # new =>
                \/ /\ old = PodPending
                   /\ new = PodScheduled
                   /\ sched.pc = "binding"
                   /\ sched' # sched
                \/ /\ old = PodScheduled
                   /\ new \in {PodRunning, PodSucceeded, PodFailed}
                   /\ kubelet' # kubelet]_vars

\* C27: the scheduler binds each pod at most once: no pod has two bindings
\* in the scheduler's history, whatever the controller and the node agent
\* did in between.
C27_BoundAtMostOnce ==
    \A i, j \in 1 .. Len(hist) : hist[i].name = hist[j].name => i = j

\* a pod the scheduler bound and the node agent then wrote back from the
\* copy it took before the binding, so that its nodeName is empty again
\* while a later tick has bound another pod
C27_Witness ==
    /\ Len(hist) >= 2
    /\ \E p \in StoredPods(etcd) :
        /\ p.name = hist[1].name
        /\ p.nodeName = <<>>

\* C28: in every reachable state of the store, every pod whose status is
\* Scheduled or Running has a non-empty nodeName.
C28_PlacedPodHasNode ==
    \A p \in StoredPods(etcd) :
        p.status \in {PodScheduled, PodRunning} => p.nodeName # <<>>

\* C29: a pod that is absent from the store, having been deleted, is not
\* brought back by the scheduler or by the node agent: no step of the
\* scheduler's binding loop and no step of the agent adds a pod to the
\* store, whatever it read before the delete.
C29_DeletedPodStaysAbsent ==
    [][(sched' # sched \/ kubelet' # kubelet) =>
        \A k \in DOMAIN etcd' : HasPrefix(k, podPrefix) => k \in DOMAIN etcd]_vars

\* C30: a PUT of R.spec.replicas that the API server answered 200 while
\* Reconcile(R) was between its read and its write of R is still in the
\* store when Reconcile has finished.
C30_SpecUpdateSurvivesReconcile ==
    (/\ Len(hist) = 2
     /\ hist[1].op = "PUT"
     /\ hist[1].reconciling
     /\ hist[1].codes = <<200>>
     /\ hist[2].op = "Reconcile"
     /\ hist[2].name = hist[1].name) =>
        /\ HasReplicaSet(etcd, hist[1].name)
        /\ StoredReplicaSet(etcd, hist[1].name).replicas = hist[1].replicas

\* C31: every pod that Reconcile creates for ReplicaSet R is owned by R: its
\* name begins with the whole of R.name, whatever the length of R.name, and a
\* Reconcile of R that follows another with nothing in between creates no
\* pod.
C31_CreatedPodsAreOwned ==
    \A i \in 1 .. Len(hist) :
        hist[i].op = "Reconcile" =>
            /\ \A p \in CreatedBy(i) : HasPrefix(p.name, hist[i].name)
            /\ (i > 1 /\ hist[i - 1].op = "Reconcile" /\ hist[i - 1].err = "") =>
                    CreatedBy(i) = {}

\* the i-th call is Reconcile of a stored ReplicaSet with current < desired
ReconcileBelowDesired(i) ==
    /\ hist[i].op = "Reconcile"
    /\ HasReplicaSet(hist[i].pre, hist[i].name)
    /\ Cardinality(ActiveOwnedBy(hist[i].pre, hist[i].name))
         < StoredReplicaSet(hist[i].pre, hist[i].name).replicas

Missing(i) ==
    StoredReplicaSet(hist[i].pre, hist[i].name).replicas
        - Cardinality(ActiveOwnedBy(hist[i].pre, hist[i].name))

TemplateContainers(i) == StoredReplicaSet(hist[i].pre, hist[i].name).template.containers

OtherKeys(e, name) == DOMAIN e \ {ReplicaSetKey(name)}

PutFailed(name) ==
    \E i \in 1 .. Len(hist) : hist[i].op = "PUT" /\ hist[i].name = name /\ hist[i].code = 0

\* the stored pod has the status the agent derives from the runtime
StoredIsDerived(name) ==
    /\ PodKey(name) \in DOMAIN etcd
    /\ DecodePod(etcd[PodKey(name)]).status = ReportedStatus(DecodePod(etcd[PodKey(name)]))

\* C34: once the API server is in reach again after a status PUT for a pod
\* failed, the stored status of the pod eventually equals the derived one.
C34_FailedPutIsSentAgain ==
    \A name \in InitPodNames :
        (PutFailed(name) /\ ~Unreachable) ~> StoredIsDerived(name)

\* the answers of a registration that failed for a passing cause: no answer
\* at all, or a server error
TransientCodes == {0, 500}

\* C35: a node agent whose registration failed with a transient error has
\* not given up: it is still to register, or it runs.
C35_TransientFailureIsRetried ==
    (hist # <<>> /\ hist[1].code \in TransientCodes) => kubelet.state # "failed"

\* C36: when StartContainer fails for a container, runPod logs the failure,
\* goes on to every later container of the pod, and the agent keeps running.
C36_ContainerFailureIsLoggedOnly ==
    \A i \in 1 .. Len(hist) :
        hist[i].op = "runPod" =>
            LET containers == kubelet.pods[hist[i].name].spec.containers
            IN /\ hist[i].tried = [j \in 1 .. Len(containers) |-> containers[j].name]
               /\ \A j \in 1 .. Len(containers) :
                    hist[i].outcomes[j] # "started" =>
                        \E l \in 1 .. Len(hist[i].logged) :
                            hist[i].logged[l] = containers[j].name
               /\ kubelet.state = "running"

\* the recorded Create found an object stored under the name it creates
CreateFoundObject ==
    /\ hist # <<>>
    /\ hist[1].op = "Create"
    /\ RegistryGet(hist[1].kind, hist[1].pre, hist[1].name, NoFaults).err = ""

\* C37: a registry Create for a name that is already stored leaves the
\* store as it found it, also when its read of the key fails.
C37_CreateNeverOverwrites ==
    CreateFoundObject => After(1) = hist[1].pre

\* C38: no write of the poller to the agent's pod table happens while a
\* range of the reporter over the table is under way.
C38_TableNeverWrittenDuringRange ==
    \A i \in 1 .. Len(hist) : hist[i].op = "write" => ~hist[i].ranging

\* C39: every request is answered once: its handler writes one status (and
\* one body); a POST /pods answered 409 writes nothing after it.
C39_OneResponsePerRequest ==
    \A i \in 1 .. Len(hist) : Len(hist[i].codes) = 1

\* the prefix of the keys of a kind
KindPrefix(kind) ==
    IF kind = "pod" THEN podPrefix
    ELSE IF kind = "node" THEN nodePrefix
    ELSE replicaSetPrefix \o <<47>>

\* the keys whose value the i-th recorded call wrote, replaced or deleted
ChangedKeys(i) ==
    {k \in DOMAIN hist[i].pre \cup DOMAIN After(i) :
        \/ k \notin DOMAIN hist[i].pre
        \/ k \notin DOMAIN After(i)
        \/ hist[i].pre[k] # After(i)[k]}

\* C40: a registry call writes, replaces or deletes no key but the prefix of
\* its kind followed by the name unchanged, so no key of another kind, also
\* for names that hold path elements such as "..".
C40_KeyIsPrefixThenName ==
    \A i \in 1 .. Len(hist) :
        ChangedKeys(i) \subseteq {KindPrefix(hist[i].kind) \o hist[i].name}

====
